---------------------------- MODULE Spec2Model ----------------------------
(***************************************************************************)
(* A model of typeid-python: the base32 codec (typeid/base32.py), the      *)
(* prefix/suffix validators (typeid/validation.py) and the TypeID entity   *)
(* (typeid/typeid.py).                                                     *)
(*                                                                         *)
(* Python strings are sequences of code points (naturals below 256), byte  *)
(* lists are sequences of naturals.  A call's outcome is a record          *)
(* [kind, exc, val]: kind = "ok" with the returned value, or kind =        *)
(* "raise" with the name of the exception class.                           *)
(***************************************************************************)
EXTENDS Integers, Sequences, FiniteSets, TLC

VARIABLES input, call, ret, clock, last_v7_timestamp, ids, called,
          cache, allocated, held, asked

vars == <<input, call, ret, clock, last_v7_timestamp, ids, called,
          cache, allocated, held, asked>>

\* The factories: the entries of the cache of cached_typeid_factory, least
\* recently used first, the number of TypeIDFactory objects created so far,
\* the factory the caller got first and holds, and the number of distinct
\* prefixes cached_typeid_factory has been asked for
factories == <<cache, allocated, held, asked>>

\* What the operations on one input leave alone: the time source and the
\* generator's last timestamp, the identifiers generated so far, the
\* arguments the schema lookup (or the prefixes a factory) has been called
\* with, and the factories
env == <<clock, last_v7_timestamp, ids, called, factories>>

-----------------------------------------------------------------------------
(* Outcomes, None and Optional values *)

NoneVal == <<>>

Ok(v) == [kind |-> "ok", exc |-> "", val |-> v]

Raise(e) == [kind |-> "raise", exc |-> e, val |-> NoneVal]

\* Optional[str]: None, or a string
None == [some |-> FALSE, v |-> <<>>]

Some(s) == [some |-> TRUE, v |-> s]

\* Python truthiness of an Optional[str]: None and "" are falsy
Truthy(o) == o.some /\ o.v # <<>>

-----------------------------------------------------------------------------
(* Integer bit operations of Python, on naturals *)

RECURSIVE BitAnd(_, _)
BitAnd(a, b) ==
  IF a = 0 \/ b = 0 THEN 0
  ELSE 2 * BitAnd(a \div 2, b \div 2) + (IF a % 2 = 1 /\ b % 2 = 1 THEN 1 ELSE 0)

RECURSIVE BitOr(_, _)
BitOr(a, b) ==
  IF a = 0 THEN b
  ELSE IF b = 0 THEN a
  ELSE 2 * BitOr(a \div 2, b \div 2) + (IF a % 2 = 1 \/ b % 2 = 1 THEN 1 ELSE 0)

Shl(a, n) == a * (2 ^ n)

Shr(a, n) == a \div (2 ^ n)

-----------------------------------------------------------------------------
(* Characters *)

Underscore == 95

Newline == 10

Space == 32

LowerAZ == 97 .. 122

\* str.isdigit / str.islower / str.isupper / str.isspace per code point (Latin-1)
DigitChars == (48 .. 57) \cup {178, 179, 185}

LowerChars == LowerAZ \cup {170, 181, 186} \cup (223 .. 246) \cup (248 .. 255)

UpperChars == (65 .. 90) \cup (192 .. 214) \cup (216 .. 222)

SpaceChars == (9 .. 13) \cup (28 .. 32) \cup {133, 160}

Range(s) == {s[i] : i \in 1 .. Len(s)}

\* str.isdigit(): non-empty and every character a digit
isdigit(s) == s # <<>> /\ \A i \in 1 .. Len(s) : s[i] \in DigitChars

\* str.islower(): at least one cased character and no uppercase one
islower(s) ==
  /\ \E i \in 1 .. Len(s) : s[i] \in LowerChars
  /\ \A i \in 1 .. Len(s) : s[i] \notin UpperChars

\* str.strip() == "": every character is whitespace
StripIsEmpty(s) == \A i \in 1 .. Len(s) : s[i] \in SpaceChars

\* bytes(s, encoding="utf-8"), for code points below 0x800
RECURSIVE Utf8(_)
Utf8(s) ==
  IF s = <<>> THEN <<>>
  ELSE (IF Head(s) < 128 THEN <<Head(s)>>
        ELSE <<192 + (Head(s) \div 64), 128 + (Head(s) % 64)>>) \o Utf8(Tail(s))

-----------------------------------------------------------------------------
(* typeid/base32.py *)

SUFFIX_LEN == 26

\* Variant: the base32hex alphabet "0123456789abcdefghijklmnopqrstuv" in place
\* of the one the decode table was built for
ALPHABET_hex ==
  << 48, 49, 50, 51, 52, 53, 54, 55, 56, 57,
     97, 98, 99, 100, 101, 102, 103, 104, 105, 106, 107, 108,
     109, 110, 111, 112, 113, 114, 115, 116, 117, 118 >>

\* "0123456789abcdefghjkmnpqrstvwxyz"
ALPHABET ==
  << 48, 49, 50, 51, 52, 53, 54, 55, 56, 57,
     97, 98, 99, 100, 101, 102, 103, 104, 106, 107, 109, 110,
     112, 113, 114, 115, 116, 118, 119, 120, 121, 122 >>

TABLE ==
  <<
    255, 255, 255, 255, 255, 255, 255, 255, 255, 255, 255, 255, 255, 255, 255, 255,
    255, 255, 255, 255, 255, 255, 255, 255, 255, 255, 255, 255, 255, 255, 255, 255,
    255, 255, 255, 255, 255, 255, 255, 255, 255, 255, 255, 255, 255, 255, 255, 255,
      0,   1,   2,   3,   4,   5,   6,   7,   8,   9, 255, 255, 255, 255, 255, 255,
    255,  10,  11,  12,  13,  14,  15,  16,  17, 255,  18,  19, 255,  20,  21, 255,
     22,  23,  24,  25,  26, 255,  27,  28,  29,  30,  31, 255, 255, 255, 255, 255,
    255,  10,  11,  12,  13,  14,  15,  16,  17, 255,  18,  19, 255,  20,  21, 255,
     22,  23,  24,  25,  26, 255,  27,  28,  29,  30,  31, 255, 255, 255, 255, 255,
    255, 255, 255, 255, 255, 255, 255, 255, 255, 255, 255, 255, 255, 255, 255, 255,
    255, 255, 255, 255, 255, 255, 255, 255, 255, 255, 255, 255, 255, 255, 255, 255,
    255, 255, 255, 255, 255, 255, 255, 255, 255, 255, 255, 255, 255, 255, 255, 255,
    255, 255, 255, 255, 255, 255, 255, 255, 255, 255, 255, 255, 255, 255, 255, 255,
    255, 255, 255, 255, 255, 255, 255, 255, 255, 255, 255, 255, 255, 255, 255, 255,
    255, 255, 255, 255, 255, 255, 255, 255, 255, 255, 255, 255, 255, 255, 255, 255,
    255, 255, 255, 255, 255, 255, 255, 255, 255, 255, 255, 255, 255, 255, 255, 255,
    255, 255, 255, 255, 255, 255, 255, 255, 255, 255, 255, 255, 255, 255, 255, 255
  >>

\* ALPHABET[k] and TABLE[b] with Python's 0-based index
A(k) == ALPHABET[k + 1]

T(b) == TABLE[b + 1]

\* The 26 symbols encode writes into dst, from a 0-based byte list s
EncodeSymbols(src) ==
  LET s(i) == src[i + 1] IN
  << A(Shr(BitAnd(s(0), 224), 5)),
     A(BitAnd(s(0), 31)),
     A(Shr(BitAnd(s(1), 248), 3)),
     A(BitOr(Shl(BitAnd(s(1), 7), 2), Shr(BitAnd(s(2), 192), 6))),
     A(Shr(BitAnd(s(2), 62), 1)),
     A(BitOr(Shl(BitAnd(s(2), 1), 4), Shr(BitAnd(s(3), 240), 4))),
     A(BitOr(Shl(BitAnd(s(3), 15), 1), Shr(BitAnd(s(4), 128), 7))),
     A(Shr(BitAnd(s(4), 124), 2)),
     A(BitOr(Shl(BitAnd(s(4), 3), 3), Shr(BitAnd(s(5), 224), 5))),
     A(BitAnd(s(5), 31)),
     A(Shr(BitAnd(s(6), 248), 3)),
     A(BitOr(Shl(BitAnd(s(6), 7), 2), Shr(BitAnd(s(7), 192), 6))),
     A(Shr(BitAnd(s(7), 62), 1)),
     A(BitOr(Shl(BitAnd(s(7), 1), 4), Shr(BitAnd(s(8), 240), 4))),
     A(BitOr(Shl(BitAnd(s(8), 15), 1), Shr(BitAnd(s(9), 128), 7))),
     A(Shr(BitAnd(s(9), 124), 2)),
     A(BitOr(Shl(BitAnd(s(9), 3), 3), Shr(BitAnd(s(10), 224), 5))),
     A(BitAnd(s(10), 31)),
     A(Shr(BitAnd(s(11), 248), 3)),
     A(BitOr(Shl(BitAnd(s(11), 7), 2), Shr(BitAnd(s(12), 192), 6))),
     A(Shr(BitAnd(s(12), 62), 1)),
     A(BitOr(Shl(BitAnd(s(12), 1), 4), Shr(BitAnd(s(13), 240), 4))),
     A(BitOr(Shl(BitAnd(s(13), 15), 1), Shr(BitAnd(s(14), 128), 7))),
     A(Shr(BitAnd(s(14), 124), 2)),
     A(BitOr(Shl(BitAnd(s(14), 3), 3), Shr(BitAnd(s(15), 224), 5))),
     A(BitAnd(s(15), 31)) >>

\* Variant: encode without the length check, src cut or filled with zero
\* bytes to 16
encode_unchecked(src) ==
  Ok(EncodeSymbols([i \in 1 .. 16 |-> IF i <= Len(src) THEN src[i] ELSE 0]))

\* encode(src): RuntimeError unless len(src) == 16, else "".join(dst)
encode(src) ==
  IF Len(src) # 16 THEN Raise("RuntimeError")
  ELSE Ok(EncodeSymbols(src))

\* The guard of decode: raises only when all of v[0..25] map to 0xFF
DecodeRejects(v) == \A k \in 0 .. 25 : T(v[k + 1]) = 255

\* Variant: typeid[2] shifts TABLE[v[4]] by 2 instead of 1
DecodeBytes_shift(v) ==
  LET t(k) == T(v[k + 1]) IN
  << BitOr(Shl(t(0), 5), t(1)),
     BitOr(Shl(t(2), 3), Shr(t(3), 2)),
     BitOr(BitOr(Shl(BitAnd(t(3), 3), 6), Shl(t(4), 2)), Shr(t(5), 4)),
     BitOr(Shl(BitAnd(t(5), 15), 4), Shr(t(6), 1)),
     BitOr(BitOr(Shl(BitAnd(t(6), 1), 7), Shl(t(7), 2)), Shr(t(8), 3)),
     BitOr(Shl(BitAnd(t(8), 7), 5), t(9)),
     BitOr(Shl(t(10), 3), Shr(t(11), 2)),
     BitOr(BitOr(Shl(BitAnd(t(11), 3), 6), Shl(t(12), 1)), Shr(t(13), 4)),
     BitOr(Shl(BitAnd(t(13), 15), 4), Shr(t(14), 1)),
     BitOr(BitOr(Shl(BitAnd(t(14), 1), 7), Shl(t(15), 2)), Shr(t(16), 3)),
     BitOr(Shl(BitAnd(t(16), 7), 5), t(17)),
     BitOr(Shl(t(18), 3), Shr(t(19), 2)),
     BitOr(BitOr(Shl(BitAnd(t(19), 3), 6), Shl(t(20), 1)), Shr(t(21), 4)),
     BitOr(Shl(BitAnd(t(21), 15), 4), Shr(t(22), 1)),
     BitOr(BitOr(Shl(BitAnd(t(22), 1), 7), Shl(t(23), 2)), Shr(t(24), 3)),
     BitOr(Shl(BitAnd(t(24), 7), 5), t(25)) >>

\* The 16 values decode computes, from the 0-based byte string v
DecodeBytes(v) ==
  LET t(k) == T(v[k + 1]) IN
  << BitOr(Shl(t(0), 5), t(1)),
     BitOr(Shl(t(2), 3), Shr(t(3), 2)),
     BitOr(BitOr(Shl(BitAnd(t(3), 3), 6), Shl(t(4), 1)), Shr(t(5), 4)),
     BitOr(Shl(BitAnd(t(5), 15), 4), Shr(t(6), 1)),
     BitOr(BitOr(Shl(BitAnd(t(6), 1), 7), Shl(t(7), 2)), Shr(t(8), 3)),
     BitOr(Shl(BitAnd(t(8), 7), 5), t(9)),
     BitOr(Shl(t(10), 3), Shr(t(11), 2)),
     BitOr(BitOr(Shl(BitAnd(t(11), 3), 6), Shl(t(12), 1)), Shr(t(13), 4)),
     BitOr(Shl(BitAnd(t(13), 15), 4), Shr(t(14), 1)),
     BitOr(BitOr(Shl(BitAnd(t(14), 1), 7), Shl(t(15), 2)), Shr(t(16), 3)),
     BitOr(Shl(BitAnd(t(16), 7), 5), t(17)),
     BitOr(Shl(t(18), 3), Shr(t(19), 2)),
     BitOr(BitOr(Shl(BitAnd(t(19), 3), 6), Shl(t(20), 1)), Shr(t(21), 4)),
     BitOr(Shl(BitAnd(t(21), 15), 4), Shr(t(22), 1)),
     BitOr(BitOr(Shl(BitAnd(t(22), 1), 7), Shl(t(23), 2)), Shr(t(24), 3)),
     BitOr(Shl(BitAnd(t(24), 7), 5), t(25)) >>

\* decode(s): v = bytes(s, "utf-8"); indexing v[k] past the end raises
\* IndexError (in the guard or, the guard being false, in the body, which
\* reads all of v[0..25]); bytes past v[25] are never read.
decode(s) ==
  LET v == Utf8(s) IN
  IF Len(v) < 26 THEN Raise("IndexError")
  ELSE IF DecodeRejects(v) THEN Raise("RuntimeError")
  ELSE Ok(DecodeBytes(v))

-----------------------------------------------------------------------------
(* typeid/validation.py *)

\* The bounds of the repetition [a-z_]{0,61} in the prefix pattern
RegexMidMax == 61

\* The positions where "$" matches (no MULTILINE flag): the end of the string,
\* and just before a newline that is the last character
DollarPositions(s) ==
  {Len(s)} \cup (IF s # <<>> /\ s[Len(s)] = Newline THEN {Len(s) - 1} ELSE {})

\* Variant: the pattern ([a-z]([a-z_]{0,62})?)?, which lets "_" come last
PrefixGroup_trailing(b) ==
  \/ b = <<>>
  \/ /\ b[1] \in LowerAZ
     /\ Len(b) - 1 <= RegexMidMax + 1
     /\ \A i \in 2 .. Len(b) : b[i] \in LowerAZ \cup {Underscore}

\* b is in the language of ([a-z]([a-z_]{0,61}[a-z])?)?
PrefixGroup(b) ==
  \/ b = <<>>
  \/ /\ b[1] \in LowerAZ
     /\ \/ Len(b) = 1
        \/ /\ Len(b) - 2 <= RegexMidMax
           /\ \A i \in 2 .. Len(b) - 1 : b[i] \in LowerAZ \cup {Underscore}
           /\ b[Len(b)] \in LowerAZ

\* re.match("^([a-z]([a-z_]{0,61}[a-z])?)?$", prefix) is not None
PrefixMatch(prefix) ==
  \E n \in DollarPositions(prefix) : PrefixGroup(SubSeq(prefix, 1, n))

validate_prefix(prefix) ==
  IF ~PrefixMatch(prefix) THEN Raise("PrefixValidationException")
  ELSE Ok(NoneVal)

\* Variant: the first symbol is not checked
SuffixRejected_nofirst(suffix) ==
  \/ Len(suffix) # SUFFIX_LEN
  \/ suffix = <<>>
  \/ Space \in Range(suffix)
  \/ (~isdigit(suffix) /\ ~islower(suffix))
  \/ \E i \in 1 .. Len(suffix) : suffix[i] \notin Range(ALPHABET)

\* The first condition of validate_suffix
SuffixRejected(suffix) ==
  \/ Len(suffix) # SUFFIX_LEN
  \/ suffix = <<>>
  \/ Space \in Range(suffix)
  \/ (~isdigit(suffix) /\ ~islower(suffix))
  \/ \E i \in 1 .. Len(suffix) : suffix[i] \notin Range(ALPHABET)
  \/ suffix[1] > 55

validate_suffix(suffix) ==
  IF SuffixRejected(suffix) THEN Raise("SuffixValidationException")
  ELSE IF decode(suffix).kind = "raise" THEN Raise("SuffixValidationException")
  ELSE Ok(NoneVal)

-----------------------------------------------------------------------------
(* typeid/typeid.py *)

\* A TypeID object: _prefix (Optional[str]) and _suffix (str)
MkTypeID(p, s) == [prefix |-> p, suffix |-> s]

NoTypeID == MkTypeID(None, <<>>)

\* uuid6.uuid7(): the 16 bytes of a version-7 UUID: the 48-bit millisecond
\* timestamp ts (6 bytes, big-endian), the version and variant bits, and every
\* random field filled from the byte r
Uuid7(ts, r) ==
  ts \o << 112 + (r % 16), r, 128 + (r % 64), r, r, r, r, r, r, r >>

\* _convert_uuid_to_b32(uuid_instance): base32.encode(list(uuid_instance.bytes))
convert_uuid_to_b32(u) == encode(u)

\* __init__ calls uuid6.uuid7() exactly when "not suffix"
Generates(suffix) == ~Truthy(suffix)

\* TypeID.__init__(prefix, suffix); fresh is what uuid6.uuid7() returns if called
TypeID_init(prefix, suffix, fresh) ==
  LET suf == IF Generates(suffix) THEN convert_uuid_to_b32(fresh).val ELSE suffix.v
      vs  == validate_suffix(suf)
      vp  == validate_prefix(prefix.v)
  IN  IF vs.kind = "raise" THEN vs
      ELSE IF prefix.some /\ vp.kind = "raise" THEN vp
      ELSE Ok(MkTypeID(prefix, suf))

\* Variant: the index of the first "_" (split in place of rsplit)
LastUnderscore_first(string) ==
  LET at == {i \in 1 .. Len(string) : string[i] = Underscore}
  IN  IF at = {} THEN 0 ELSE CHOOSE i \in at : \A j \in at : i <= j

\* The index of the last "_" of string, 0 when there is none
LastUnderscore(string) ==
  LET at == {i \in 1 .. Len(string) : string[i] = Underscore}
  IN  IF at = {} THEN 0 ELSE CHOOSE i \in at : \A j \in at : j <= i

\* Variant: string.split("_") with no maxsplit, so that unpacking the parts
\* of a string with several underscores raises ValueError
get_prefix_and_suffix_split(string) ==
  LET at     == {i \in 1 .. Len(string) : string[i] = Underscore}
      i      == IF at = {} THEN 0 ELSE CHOOSE k \in at : TRUE
      prefix == SubSeq(string, 1, i - 1)
      suffix == SubSeq(string, i + 1, Len(string))
  IN  IF at = {}
      THEN IF StripIsEmpty(string) THEN Raise("InvalidTypeIDStringException")
           ELSE Ok(<<None, string>>)
      ELSE IF Cardinality(at) > 1 THEN Raise("ValueError")
      ELSE IF StripIsEmpty(prefix) \/ StripIsEmpty(suffix)
           THEN Raise("InvalidTypeIDStringException")
           ELSE Ok(<<Some(prefix), suffix>>)

\* get_prefix_and_suffix(string): string.rsplit("_", 1), then the emptiness checks
get_prefix_and_suffix(string) ==
  LET i      == LastUnderscore(string)
      prefix == SubSeq(string, 1, i - 1)
      suffix == SubSeq(string, i + 1, Len(string))
  IN  IF i = 0
      THEN IF StripIsEmpty(string) THEN Raise("InvalidTypeIDStringException")
           ELSE Ok(<<None, string>>)
      ELSE IF StripIsEmpty(prefix) \/ StripIsEmpty(suffix)
           THEN Raise("InvalidTypeIDStringException")
           ELSE Ok(<<Some(prefix), suffix>>)

\* Variant: from_string folding the ASCII capitals of string to lower case
\* before it splits
from_string_lower(string, fresh) ==
  LET folded == [i \in 1 .. Len(string) |->
                   IF string[i] \in 65 .. 90 THEN string[i] + 32 ELSE string[i]]
      ps == get_prefix_and_suffix(folded)
  IN  IF ps.kind = "raise" THEN ps
      ELSE TypeID_init(ps.val[1], Some(ps.val[2]), fresh)

\* TypeID.from_string(string)
from_string(string, fresh) ==
  LET ps == get_prefix_and_suffix(string)
  IN  IF ps.kind = "raise" THEN ps
      ELSE TypeID_init(ps.val[1], Some(ps.val[2]), fresh)

\* TypeID.from_uuid(suffix, prefix), the UUID given as its 16 bytes
from_uuid(u, prefix, fresh) ==
  TypeID_init(prefix, Some(convert_uuid_to_b32(u).val), fresh)

\* The property TypeID.prefix: self._prefix or ""
TypeID_prefix(t) == IF Truthy(t.prefix) THEN t.prefix.v ELSE <<>>

\* The property TypeID.suffix
TypeID_suffix(t) == t.suffix

\* TypeID.__str__
TypeID_str(t) ==
  (IF TypeID_prefix(t) # <<>> THEN TypeID_prefix(t) \o <<Underscore>> ELSE <<>>)
    \o TypeID_suffix(t)

\* isinstance(value, TypeID): any other object is a record [type, v]
IsTypeID(value) == "suffix" \in DOMAIN value

\* A Python str as an operand that is not a TypeID
StrObject(s) == [type |-> "str", v |-> s]

\* s > t on Python strings: the order of the code points at the first
\* difference, a proper extension being the greater
RECURSIVE StrGt(_, _)
StrGt(s, t) ==
  IF s = <<>> THEN FALSE
  ELSE IF t = <<>> THEN TRUE
  ELSE IF Head(s) # Head(t) THEN Head(s) > Head(t)
  ELSE StrGt(Tail(s), Tail(t))

\* TypeID.__eq__(self, value) comparing the suffix alone
TypeID_eq_suffix(self, value) ==
  IF ~IsTypeID(value) THEN FALSE
  ELSE TypeID_suffix(value) = TypeID_suffix(self)

\* TypeID.__eq__(self, value)
TypeID_eq(self, value) ==
  IF ~IsTypeID(value) THEN FALSE
  ELSE TypeID_prefix(value) = TypeID_prefix(self)
         /\ TypeID_suffix(value) = TypeID_suffix(self)

\* What a rich comparison method returns for an operand it does not support
NotImplemented == [kind |-> "NotImplemented", exc |-> "", val |-> NoneVal]

\* TypeID.__gt__(self, other) comparing the suffixes alone
TypeID_gt_suffix(self, other) ==
  IF IsTypeID(other)
  THEN Ok(StrGt(TypeID_suffix(self), TypeID_suffix(other)))
  ELSE NotImplemented

\* TypeID.__gt__(self, other)
TypeID_gt(self, other) ==
  IF IsTypeID(other)
  THEN Ok(StrGt(TypeID_str(self), TypeID_str(other)))
  ELSE NotImplemented

\* TypeID.__ge__(self, other)
TypeID_ge(self, other) ==
  IF IsTypeID(other)
  THEN Ok(~StrGt(TypeID_str(other), TypeID_str(self)))
  ELSE NotImplemented

\* The expression self > other (and self >= other, given the method's
\* answer): a TypeError when the method returns NotImplemented, since no
\* other operand of the model implements the reflected method
Operator(answer) == IF answer.kind = "ok" THEN answer ELSE Raise("TypeError")

\* self < other: TypeID defines no __lt__, so Python calls the reflected
\* other.__gt__(self)
Reflected_gt(self, other) ==
  IF IsTypeID(other) THEN Operator(TypeID_gt(other, self)) ELSE Raise("TypeError")

\* self <= other: TypeID defines no __le__, so Python calls the reflected
\* other.__ge__(self)
Reflected_ge(self, other) ==
  IF IsTypeID(other) THEN Operator(TypeID_ge(other, self)) ELSE Raise("TypeError")

\* The width hashes are kept to
HashMod == 65536

\* hash(s) of a str, as a polynomial over the code points
RECURSIVE StrHash(_)
StrHash(s) ==
  IF s = <<>> THEN 0
  ELSE (31 * StrHash(SubSeq(s, 1, Len(s) - 1)) + s[Len(s)]) % HashMod

\* TypeID.__hash__: hash((self.prefix, self.suffix))
TypeID_hash(self) ==
  (31 * StrHash(TypeID_prefix(self)) + StrHash(TypeID_suffix(self))) % HashMod

\* uuid6.UUID(int=i, version=7) on the 16 big-endian bytes of i: a version
\* argument sets the version nibble to 7 and the variant bits to 10
UUID_version7(b) ==
  [b EXCEPT ![7] = 112 + (b[7] % 16), ![9] = 128 + (b[9] % 64)]

\* _convert_b32_to_uuid(b32): the 16 bytes of the UUID returned; bytes()
\* refuses values above 255
convert_b32_to_uuid(b32) ==
  LET d == decode(b32)
  IN  IF d.kind # "ok" THEN d
      ELSE IF \E i \in 1 .. Len(d.val) : d.val[i] > 255 THEN Raise("ValueError")
      ELSE Ok(UUID_version7(d.val))

\* The property TypeID.uuid
TypeID_uuid(self) == convert_b32_to_uuid(TypeID_suffix(self))

-----------------------------------------------------------------------------
(* examples/sqlalchemy.py *)

\* TypeIDType(prefix): the adapter object
TypeIDType(prefix) == [prefix |-> prefix]

\* The assertion of process_bind_param: value.prefix is a str, never None, so
\* "value.prefix is None" is false for every value; with a prefix configured
\* it is value.prefix == self.prefix
BindAssertion(self, value) ==
  LET value_prefix == Some(TypeID_prefix(value))
  IN  IF ~self.prefix.some THEN ~value_prefix.some
      ELSE value_prefix = self.prefix

\* TypeIDType.process_bind_param(value, dialect)
process_bind_param(self, value) ==
  IF ~BindAssertion(self, value) THEN Raise("AssertionError")
  ELSE TypeID_uuid(value)

\* TypeIDType.process_result_value(value, dialect)
process_result_value(self, value, fresh) == from_uuid(value, self.prefix, fresh)

-----------------------------------------------------------------------------
(* typeid/factory.py *)

\* TypeIDFactory(prefix): the object, id telling it from every other object
\* created (the ids count from 1)
TypeIDFactory(prefix, id) == [prefix |-> prefix, id |-> id]

\* No factory
NoFactory == TypeIDFactory(<<>>, 0)

\* typeid_factory(prefix), after objects objects have been created: the
\* factory returned, the cache and the number of objects afterwards
typeid_factory(prefix, entries, objects) ==
  [out |-> TypeIDFactory(prefix, objects + 1), cache |-> entries, allocated |-> objects + 1]

\* lru_cache(maxsize=256)
maxsize == 256

\* The index of the cache entry for the key, 0 if it has none
RECURSIVE CacheFind(_, _, _)
CacheFind(entries, key, i) ==
  IF i > Len(entries) THEN 0
  ELSE IF entries[i].prefix = key THEN i
  ELSE CacheFind(entries, key, i + 1)

\* The sequence without its i-th element
Without(s, i) == SubSeq(s, 1, i - 1) \o SubSeq(s, i + 1, Len(s))

\* lru_cache on a hit at entry i: the cached result, the entry becoming the
\* most recently used
cache_hit(entries, i, objects) ==
  [out |-> entries[i], cache |-> Append(Without(entries, i), entries[i]), allocated |-> objects]

\* lru_cache on a miss: the result made is stored, in place of the least
\* recently used entry when the cache is full
cache_miss(entries, made, objects) ==
  [out |-> made,
   cache |-> IF Len(entries) >= maxsize THEN Append(Tail(entries), made)
             ELSE Append(entries, made),
   allocated |-> objects + 1]

\* cached_typeid_factory, given the index of the entry for prefix
cached_lookup(prefix, entries, i, objects) ==
  IF i > 0 THEN cache_hit(entries, i, objects)
  ELSE cache_miss(entries, TypeIDFactory(prefix, objects + 1), objects)

\* cached_typeid_factory(prefix)
cached_typeid_factory(prefix, entries, objects) ==
  cached_lookup(prefix, entries, CacheFind(entries, prefix, 1), objects)

-----------------------------------------------------------------------------
(* typeid/explain/engine.py: derived facts *)

\* The first millisecond datetime.fromtimestamp refuses (year 10000), as 6
\* bytes: 253402300800000
DatetimeEnd == <<230, 119, 210, 31, 220, 0>>

\* _uuid7_created_at(uuid_obj): the datetime of the top 48 bits of the UUID,
\* held as those 6 bytes, or None when datetime.fromtimestamp raises
uuid7_created_at(uuid_obj) ==
  LET unix_ms == SubSeq(uuid_obj, 1, 6)
  IN  IF StrGt(DatetimeEnd, unix_ms) THEN Some(unix_ms) ELSE None

\* A raised exception with the text str(e) gives
RaiseMsg(e, msg) == [kind |-> "raise", exc |-> e, val |-> msg]

\* The subclasses of TypeIDException (typeid/errors.py)
TypeIDException ==
  {"PrefixValidationException", "SuffixValidationException", "InvalidTypeIDStringException"}

\* One hexadecimal digit, in lower case
HexDigit(n) == IF n < 10 THEN 48 + n ELSE 87 + n

RECURSIVE HexBytes(_)
HexBytes(b) ==
  IF b = <<>> THEN <<>>
  ELSE <<HexDigit(Head(b) \div 16), HexDigit(Head(b) % 16)>> \o HexBytes(Tail(b))

\* str(uuid_obj): 32 hexadecimal digits in groups of 8, 4, 4, 4 and 12
UUID_str(u) ==
  HexBytes(SubSeq(u, 1, 4)) \o <<45>> \o HexBytes(SubSeq(u, 5, 6)) \o <<45>>
    \o HexBytes(SubSeq(u, 7, 8)) \o <<45>> \o HexBytes(SubSeq(u, 9, 10)) \o <<45>>
    \o HexBytes(SubSeq(u, 11, 16))

\* ParseError(code, message); the message is str(e) of the exception caught,
\* held as the text put before it and the class of the exception
ParseError(code, before, e) == [code |-> code, message |-> <<before, e>>]

\* ParsedTypeID(raw, prefix, suffix, valid, errors, uuid, created_at, sortable)
ParsedTypeID(raw, prefix, suffix, valid, errors, uuid, created_at, sortable) ==
  [raw |-> raw, prefix |-> prefix, suffix |-> suffix, valid |-> valid,
   errors |-> errors, uuid |-> uuid, created_at |-> created_at,
   sortable |-> sortable]

\* _best_effort_split(id_str) splitting on the first "_"
best_effort_split_first(id_str) ==
  LET i      == LastUnderscore_first(id_str)
      prefix == SubSeq(id_str, 1, i - 1)
      suffix == SubSeq(id_str, i + 1, Len(id_str))
  IN  IF i = 0 THEN <<None, None>>
      ELSE IF prefix = <<>> \/ suffix = <<>> THEN <<None, None>>
      ELSE <<Some(prefix), Some(suffix)>>

\* _best_effort_split(id_str): the two sides of the last "_", or (None, None)
best_effort_split(id_str) ==
  LET i      == LastUnderscore(id_str)
      prefix == SubSeq(id_str, 1, i - 1)
      suffix == SubSeq(id_str, i + 1, Len(id_str))
  IN  IF i = 0 THEN <<None, None>>
      ELSE IF prefix = <<>> \/ suffix = <<>> THEN <<None, None>>
      ELSE <<Some(prefix), Some(suffix)>>

\* _parse_typeid, the except branches: the ParsedTypeID for the exception
\* tid that TypeID.from_string raised, split being the best-effort split
parse_failure(id_str, tid, split) ==
  IF tid.exc \in TypeIDException
  THEN ParsedTypeID(id_str, split[1], split[2], FALSE,
                    <<ParseError("invalid_typeid", "", tid.exc)>>, None, None, None)
  ELSE ParsedTypeID(id_str, split[1], split[2], FALSE,
                    <<ParseError("parse_error", "Unexpected error: ", tid.exc)>>,
                    None, None, None)

\* _parse_typeid, the derived facts of the TypeID tid whose uuid property
\* gave u: the ParsedTypeID, or the exception tid.uuid raises outside the try
\* block
parse_success(id_str, tid, u) ==
  IF u.kind = "raise" THEN u
  ELSE Ok(ParsedTypeID(id_str, Some(TypeID_prefix(tid)), Some(TypeID_suffix(tid)),
                       TRUE, <<>>, Some(UUID_str(u.val)), uuid7_created_at(u.val),
                       Some(TRUE)))

\* _parse_typeid, given the outcome tid of TypeID.from_string(id_str)
parse_outcome(id_str, tid) ==
  IF tid.kind = "raise"
  THEN Ok(parse_failure(id_str, tid, best_effort_split(id_str)))
  ELSE parse_success(id_str, tid.val, TypeID_uuid(tid.val))

\* _parse_typeid(id_str)
parse_typeid(id_str, fresh) == parse_outcome(id_str, from_string(id_str, fresh))

\* TypeSchema(prefix, name, description, owner_team, pii, retention, links):
\* the optional fields are None or Some(value), links is the list of the
\* (name, template) items of the dict in its order
TypeSchema(prefix, name, description, owner_team, pii, retention, links) ==
  [prefix |-> prefix, name |-> name, description |-> description,
   owner_team |-> owner_team, pii |-> pii, retention |-> retention,
   links |-> links]

\* A dict as the list of its (key, value) items in insertion order
DictKeys(d) == {d[i][1] : i \in 1 .. Len(d)}

\* d.setdefault(k, v)
SetDefault(d, k, v) == IF k \in DictKeys(d) THEN d ELSE Append(d, <<k, v>>)

\* d[k] = v
SetItem(d, k, v) ==
  IF k \in DictKeys(d)
  THEN [i \in 1 .. Len(d) |-> IF d[i][1] = k THEN <<k, v>> ELSE d[i]]
  ELSE Append(d, <<k, v>>)

\* _apply_schema_provenance, were a field recorded when it is truthy rather
\* than when it is not None
apply_schema_provenance_truthy(schema, provenance) ==
  LET p1 == IF Truthy(schema.name)
            THEN SetDefault(provenance, <<110, 97, 109, 101>>, "schema") ELSE provenance
      p2 == IF Truthy(schema.description)
            THEN SetDefault(p1, <<100, 101, 115, 99, 114, 105, 112, 116, 105, 111, 110>>, "schema") ELSE p1
      p3 == IF Truthy(schema.owner_team)
            THEN SetDefault(p2, <<111, 119, 110, 101, 114, 95, 116, 101, 97, 109>>, "schema") ELSE p2
      p4 == IF schema.pii.some /\ schema.pii.v
            THEN SetDefault(p3, <<112, 105, 105>>, "schema") ELSE p3
  IN  IF Truthy(schema.retention)
      THEN SetDefault(p4, <<114, 101, 116, 101, 110, 116, 105, 111, 110>>, "schema") ELSE p4

\* _apply_schema_provenance(exp): name, description, owner_team, pii and
\* retention, each when the schema has it
apply_schema_provenance(schema, provenance) ==
  LET p1 == IF schema.name.some
            THEN SetDefault(provenance, <<110, 97, 109, 101>>, "schema") ELSE provenance
      p2 == IF schema.description.some
            THEN SetDefault(p1, <<100, 101, 115, 99, 114, 105, 112, 116, 105, 111, 110>>, "schema") ELSE p1
      p3 == IF schema.owner_team.some
            THEN SetDefault(p2, <<111, 119, 110, 101, 114, 95, 116, 101, 97, 109>>, "schema") ELSE p2
      p4 == IF schema.pii.some
            THEN SetDefault(p3, <<112, 105, 105>>, "schema") ELSE p3
  IN  IF schema.retention.some
      THEN SetDefault(p4, <<114, 101, 116, 101, 110, 116, 105, 111, 110>>, "schema") ELSE p4

\* _apply_derived_provenance(exp): prefix, suffix, uuid, created_at and
\* sortable, each when parsed has it
apply_derived_provenance(parsed, provenance) ==
  LET p1 == IF parsed.prefix.some
            THEN SetDefault(provenance, <<112, 114, 101, 102, 105, 120>>, "derived_from_id") ELSE provenance
      p2 == IF parsed.suffix.some
            THEN SetDefault(p1, <<115, 117, 102, 102, 105, 120>>, "derived_from_id") ELSE p1
      p3 == IF parsed.uuid.some
            THEN SetDefault(p2, <<117, 117, 105, 100>>, "derived_from_id") ELSE p2
      p4 == IF parsed.created_at.some
            THEN SetDefault(p3, <<99, 114, 101, 97, 116, 101, 100, 95, 97, 116>>, "derived_from_id") ELSE p3
  IN  IF parsed.sortable.some
      THEN SetDefault(p4, <<115, 111, 114, 116, 97, 98, 108, 101>>, "derived_from_id") ELSE p4

-----------------------------------------------------------------------------
(* str.format_map as _render_links uses it *)

OpenBrace == 123

CloseBrace == 125

\* The least index from i on where s has the character c, Len(s) + 1 if none
RECURSIVE Find(_, _, _)
Find(s, i, c) ==
  IF i > Len(s) THEN Len(s) + 1
  ELSE IF s[i] = c THEN i
  ELSE Find(s, i + 1, c)

\* The end of a field name that starts at i: the index of the "}", ":" or
\* "!" that ends it, Len(s) + 1 when the string ends first, 0 at a "{";
\* what follows a "[" is skipped up to the next "]"
RECURSIVE NameEnd(_, _)
NameEnd(s, i) ==
  IF i > Len(s) THEN Len(s) + 1
  ELSE IF s[i] = OpenBrace THEN 0
  ELSE IF s[i] = 91 THEN NameEnd(s, Find(s, i + 1, 93))
  ELSE IF s[i] \in {CloseBrace, 58, 33} THEN i
  ELSE NameEnd(s, i + 1)

\* The index of the "}" that closes a format spec starting at i with depth
\* open braces, Len(s) + 1 if none
RECURSIVE SpecEnd(_, _, _)
SpecEnd(s, i, depth) ==
  IF i > Len(s) THEN Len(s) + 1
  ELSE IF s[i] = OpenBrace THEN SpecEnd(s, i + 1, depth + 1)
  ELSE IF s[i] = CloseBrace
       THEN IF depth = 1 THEN i ELSE SpecEnd(s, i + 1, depth - 1)
  ELSE SpecEnd(s, i + 1, depth)

\* A replacement field: its name, its conversion (0 when none), its format
\* spec, and the index after its closing brace
Field(name, conversion, spec, next) ==
  [name |-> name, conversion |-> conversion, spec |-> spec, next |-> next]

\* The format spec of the field named name, starting at i
ParseSpec(s, name, conversion, i) ==
  LET e == SpecEnd(s, i, 1)
  IN  IF e > Len(s) THEN RaiseMsg("ValueError", <<117, 110, 109, 97, 116, 99, 104, 101, 100, 32, 39, 123, 39, 32, 105, 110, 32, 102, 111, 114, 109, 97, 116, 32, 115, 112, 101, 99>>)
      ELSE Ok(Field(name, conversion, SubSeq(s, i, e - 1), e + 1))

\* parse_field: the replacement field whose name starts at i
ParseField(s, i) ==
  LET e    == NameEnd(s, i)
      name == SubSeq(s, i, e - 1)
  IN  IF e = 0 THEN RaiseMsg("ValueError", <<117, 110, 101, 120, 112, 101, 99, 116, 101, 100, 32, 39, 123, 39, 32, 105, 110, 32, 102, 105, 101, 108, 100, 32, 110, 97, 109, 101>>)
      ELSE IF e > Len(s) THEN RaiseMsg("ValueError", <<101, 120, 112, 101, 99, 116, 101, 100, 32, 39, 125, 39, 32, 98, 101, 102, 111, 114, 101, 32, 101, 110, 100, 32, 111, 102, 32, 115, 116, 114, 105, 110, 103>>)
      ELSE IF s[e] = CloseBrace THEN Ok(Field(name, 0, <<>>, e + 1))
      ELSE IF s[e] = 58 THEN ParseSpec(s, name, 0, e + 1)
      ELSE IF e + 1 > Len(s)
           THEN RaiseMsg("ValueError", <<101, 110, 100, 32, 111, 102, 32, 115, 116, 114, 105, 110, 103, 32, 119, 104, 105, 108, 101, 32, 108, 111, 111, 107, 105, 110, 103, 32, 102, 111, 114, 32, 99, 111, 110, 118, 101, 114, 115, 105, 111, 110, 32, 115, 112, 101, 99, 105, 102, 105, 101, 114>>)
      ELSE IF e + 2 > Len(s) THEN ParseSpec(s, name, s[e + 1], e + 2)
      ELSE IF s[e + 2] = CloseBrace THEN Ok(Field(name, s[e + 1], <<>>, e + 3))
      ELSE IF s[e + 2] # 58
           THEN RaiseMsg("ValueError", <<101, 120, 112, 101, 99, 116, 101, 100, 32, 39, 58, 39, 32, 97, 102, 116, 101, 114, 32, 99, 111, 110, 118, 101, 114, 115, 105, 111, 110, 32, 115, 112, 101, 99, 105, 102, 105, 101, 114>>)
      ELSE ParseSpec(s, name, s[e + 1], e + 3)

\* The index of the first "." or "[" of a field name from i on
RECURSIVE FirstEnd(_, _)
FirstEnd(name, i) ==
  IF i > Len(name) THEN Len(name) + 1
  ELSE IF name[i] \in {46, 91} THEN i
  ELSE FirstEnd(name, i + 1)

\* get_integer: a non-empty run of decimal digits
IsInteger(s) == s # <<>> /\ \A i \in 1 .. Len(s) : s[i] \in 48 .. 57

RECURSIVE ToInteger(_)
ToInteger(s) ==
  IF s = <<>> THEN 0 ELSE 10 * ToInteger(SubSeq(s, 1, Len(s) - 1)) + (s[Len(s)] - 48)

\* The attribute and item accesses a field name makes on the str obj, from
\* index i of the name: a str has no attribute of the names used here, and an
\* item of a str is one of its characters
RECURSIVE Accessors(_, _, _)
Accessors(obj, name, i) ==
  IF i > Len(name) THEN Ok(obj)
  ELSE IF name[i] = 46
  THEN LET e == FirstEnd(name, i + 1)
       IN  IF e = i + 1 THEN RaiseMsg("ValueError", <<69, 109, 112, 116, 121, 32, 97, 116, 116, 114, 105, 98, 117, 116, 101, 32, 105, 110, 32, 102, 111, 114, 109, 97, 116, 32, 115, 116, 114, 105, 110, 103>>)
           ELSE RaiseMsg("AttributeError",
                         <<39, 115, 116, 114, 39, 32, 111, 98, 106, 101, 99, 116, 32, 104, 97, 115, 32, 110, 111, 32, 97, 116, 116, 114, 105, 98, 117, 116, 101, 32, 39>> \o SubSeq(name, i + 1, e - 1) \o <<39>>)
  ELSE IF name[i] = 91
  THEN LET e   == Find(name, i + 1, 93)
           key == SubSeq(name, i + 1, e - 1)
       IN  IF e > Len(name) THEN RaiseMsg("ValueError", <<77, 105, 115, 115, 105, 110, 103, 32, 39, 93, 39, 32, 105, 110, 32, 102, 111, 114, 109, 97, 116, 32, 115, 116, 114, 105, 110, 103>>)
           ELSE IF key = <<>> THEN RaiseMsg("ValueError", <<69, 109, 112, 116, 121, 32, 97, 116, 116, 114, 105, 98, 117, 116, 101, 32, 105, 110, 32, 102, 111, 114, 109, 97, 116, 32, 115, 116, 114, 105, 110, 103>>)
           ELSE IF ~IsInteger(key)
                THEN RaiseMsg("TypeError", <<115, 116, 114, 105, 110, 103, 32, 105, 110, 100, 105, 99, 101, 115, 32, 109, 117, 115, 116, 32, 98, 101, 32, 105, 110, 116, 101, 103, 101, 114, 115, 44, 32, 110, 111, 116, 32, 39, 115, 116, 114, 39>>)
           ELSE IF ToInteger(key) >= Len(obj)
                THEN RaiseMsg("IndexError", <<115, 116, 114, 105, 110, 103, 32, 105, 110, 100, 101, 120, 32, 111, 117, 116, 32, 111, 102, 32, 114, 97, 110, 103, 101>>)
           ELSE Accessors(<<obj[ToInteger(key) + 1]>>, name, e + 1)
  ELSE RaiseMsg("ValueError", <<79, 110, 108, 121, 32, 39, 46, 39, 32, 111, 114, 32, 39, 91, 39, 32, 109, 97, 121, 32, 102, 111, 108, 108, 111, 119, 32, 39, 93, 39, 32, 105, 110, 32, 102, 111, 114, 109, 97, 116, 32, 102, 105, 101, 108, 100, 32, 115, 112, 101, 99, 105, 102, 105, 101, 114>>)

\* repr(s) of a str of code points below 256
RECURSIVE ReprBody(_, _)
ReprBody(s, quote) ==
  IF s = <<>> THEN <<>>
  ELSE LET c == Head(s)
           e == IF c = quote \/ c = 92 THEN <<92, c>>
                ELSE IF c = 10 THEN <<92, 110>>
                ELSE IF c = 13 THEN <<92, 114>>
                ELSE IF c = 9 THEN <<92, 116>>
                ELSE IF c < 32 \/ c \in 127 .. 160 \/ c = 173
                     THEN <<92, 120, HexDigit(c \div 16), HexDigit(c % 16)>>
                ELSE <<c>>
       IN  e \o ReprBody(Tail(s), quote)

Repr(s) ==
  LET quote == IF 39 \in Range(s) /\ 34 \notin Range(s) THEN 34 ELSE 39
  IN  <<quote>> \o ReprBody(s, quote) \o <<quote>>

\* ascii(s): repr(s) with every code point above 127 escaped
RECURSIVE Ascii(_)
Ascii(s) ==
  IF s = <<>> THEN <<>>
  ELSE (IF Head(s) > 127
        THEN <<92, 120, HexDigit(Head(s) \div 16), HexDigit(Head(s) % 16)>>
        ELSE <<Head(s)>>) \o Ascii(Tail(s))

\* The conversion "!r", "!s" or "!a" of a field
Convert(obj, conversion) ==
  IF conversion = 0 \/ conversion = 115 THEN Ok(obj)
  ELSE IF conversion = 114 THEN Ok(Repr(obj))
  ELSE IF conversion = 97 THEN Ok(Ascii(Repr(obj)))
  ELSE RaiseMsg("ValueError", <<85, 110, 107, 110, 111, 119, 110, 32, 99, 111, 110, 118, 101, 114, 115, 105, 111, 110, 32, 115, 112, 101, 99, 105, 102, 105, 101, 114, 32>> \o <<conversion>>)

\* format(obj, spec) of a str: the empty spec and "s" give the str itself;
\* no other format spec is interpreted
FormatStr(obj, spec) ==
  IF spec = <<>> \/ spec = <<115>> THEN Ok(obj)
  ELSE RaiseMsg("ValueError", <<73, 110, 118, 97, 108, 105, 100, 32, 102, 111, 114, 109, 97, 116, 32, 115, 112, 101, 99, 105, 102, 105, 101, 114>>)

-----------------------------------------------------------------------------
(* typeid/explain/engine.py: explain *)

\* The quotient (bytes, most significant first) and remainder of the number
\* the bytes b hold by d, by long division; rem is the remainder so far
RECURSIVE DivMod(_, _, _)
DivMod(b, d, rem) ==
  IF b = <<>> THEN [q |-> <<>>, r |-> rem]
  ELSE LET n    == rem * 256 + Head(b)
           rest == DivMod(Tail(b), d, n % d)
       IN  [q |-> <<n \div d>> \o rest.q, r |-> rest.r]

\* The number the bytes b hold, after the number acc
RECURSIVE ToInt(_, _)
ToInt(b, acc) == IF b = <<>> THEN acc ELSE ToInt(Tail(b), acc * 256 + Head(b))

\* n in decimal, in width digits
RECURSIVE Digits(_, _)
Digits(n, width) ==
  IF width = 0 THEN <<>> ELSE Digits(n \div 10, width - 1) \o <<48 + (n % 10)>>

\* The year, month and day of the day that is days after 1970-01-01
\* (proleptic Gregorian calendar, as datetime keeps it)
CivilFromDays(days) ==
  LET z   == days + 719468
      era == z \div 146097
      doe == z % 146097
      yoe == (doe - (doe \div 1460) + (doe \div 36524) - (doe \div 146096)) \div 365
      doy == doe - (365 * yoe + (yoe \div 4) - (yoe \div 100))
      mp  == (5 * doy + 2) \div 153
      m   == IF mp < 10 THEN mp + 3 ELSE mp - 9
  IN  [year  |-> yoe + era * 400 + (IF m <= 2 THEN 1 ELSE 0),
       month |-> m,
       day   |-> doy - ((153 * mp + 2) \div 5) + 1]

\* num / den rounded to the nearest integer, a tie to the even one
RoundHalfEven(num, den) ==
  LET q == num \div den
      r == num % den
  IN  IF 2 * r < den \/ (2 * r = den /\ q % 2 = 0) THEN q ELSE q + 1

\* floor(log2(n)) of a positive byte
RECURSIVE Log2(_)
Log2(n) == IF n < 2 THEN 0 ELSE 1 + Log2(n \div 2)

\* The microsecond of datetime.fromtimestamp(unix_ms / 1000.0): the double
\* nearest to unix_ms / 1000 has 52 - k bits after the point, k being
\* floor(log2) of the seconds s; its fraction times 1e6 is rounded half to
\* even. Up to 2 ^ 33 seconds that is the milliseconds times 1000 exactly.
Microsecond(s, millis) ==
  IF s[1] = 0 /\ s[2] < 2 THEN millis * 1000
  ELSE LET j == 20 - Log2(s[2] + 256 * s[1])
           N == RoundHalfEven(Shl(millis, j), 1000)
           D == Shl(1, j - 6)
       IN  (N \div D) * 15625 + RoundHalfEven((N % D) * 15625, D)

\* The text of a UTC datetime: the date and time of day, the microseconds
\* when they are not zero, and the offset "+00:00"
IsoText(date, second, micros) ==
  Digits(date.year, 4) \o <<45>> \o Digits(date.month, 2) \o <<45>> \o Digits(date.day, 2)
    \o <<84>> \o Digits(second \div 3600, 2) \o <<58>> \o Digits((second \div 60) % 60, 2)
    \o <<58>> \o Digits(second % 60, 2)
    \o (IF micros = 0 THEN <<>> ELSE <<46>> \o Digits(micros, 6))
    \o <<43, 48, 48, 58, 48, 48>>

\* isoformat, given the seconds and the milliseconds within the second
IsoSeconds(s, micros) == IsoText(CivilFromDays(ToInt(s.q, 0)), s.r, micros)

\* isoformat, given the milliseconds divided by 1000
IsoMillis(ms) == IsoSeconds(DivMod(ms.q, 86400, 0), Microsecond(ms.q, ms.r))

\* created_at.isoformat() of the UTC datetime that
\* datetime.fromtimestamp(unix_ms / 1000.0, tz=timezone.utc) gave for the 6
\* bytes of unix_ms
isoformat(created_at) == IsoMillis(DivMod(created_at, 1000, 0))

\* Explanation(id, valid, parsed, schema, links, provenance, warnings,
\* errors); derived stays the empty dict
Explanation(id, valid, parsed, schema, links, provenance, warnings, errors) ==
  [id |-> id, valid |-> valid, parsed |-> parsed, schema |-> schema,
   links |-> links, provenance |-> provenance, warnings |-> warnings,
   errors |-> errors]

\* value or ""
OrEmpty(o) == IF Truthy(o) THEN o.v ELSE <<>>

\* _SafeFormatDict.__missing__(key)
Missing(key) == <<OpenBrace>> \o key \o <<CloseBrace>>

\* mapping[key] of the _SafeFormatDict that _render_links builds from exp
SafeFormatDict(exp, key) ==
  IF key = <<105, 100>> THEN exp.id
  ELSE IF key = <<112, 114, 101, 102, 105, 120>> THEN OrEmpty(exp.parsed.prefix)
  ELSE IF key = <<115, 117, 102, 102, 105, 120>> THEN OrEmpty(exp.parsed.suffix)
  ELSE IF key = <<117, 117, 105, 100>> THEN OrEmpty(exp.parsed.uuid)
  ELSE IF key = <<99, 114, 101, 97, 116, 101, 100, 95, 97, 116>>
       THEN IF exp.parsed.created_at.some
            THEN isoformat(exp.parsed.created_at.v) ELSE <<>>
  ELSE Missing(key)

\* The text a replacement field stands for: the object its name leads to,
\* converted and formatted; format_map has no positional arguments
FieldText(f, exp) ==
  LET e     == FirstEnd(f.name, 1)
      first == SubSeq(f.name, 1, e - 1)
      obj   == Accessors(SafeFormatDict(exp, first), f.name, e)
      conv  == Convert(obj.val, f.conversion)
  IN  IF first = <<>> \/ IsInteger(first)
      THEN RaiseMsg("ValueError", <<70, 111, 114, 109, 97, 116, 32, 115, 116, 114, 105, 110, 103, 32, 99, 111, 110, 116, 97, 105, 110, 115, 32, 112, 111, 115, 105, 116, 105, 111, 110, 97, 108, 32, 102, 105, 101, 108, 100, 115>>)
      ELSE IF obj.kind = "raise" THEN obj
      ELSE IF conv.kind = "raise" THEN conv
      ELSE FormatStr(conv.val, f.spec)

\* tmpl.format_map(mapping) from index i on, out being the text so far
RECURSIVE FormatFrom(_, _, _, _)
FormatFrom(s, i, exp, out) ==
  IF i > Len(s) THEN Ok(out)
  ELSE IF s[i] \notin {OpenBrace, CloseBrace} THEN FormatFrom(s, i + 1, exp, Append(out, s[i]))
  ELSE IF s[i] = CloseBrace /\ (i = Len(s) \/ s[i + 1] # CloseBrace)
       THEN RaiseMsg("ValueError", <<83, 105, 110, 103, 108, 101, 32, 39, 125, 39, 32, 101, 110, 99, 111, 117, 110, 116, 101, 114, 101, 100, 32, 105, 110, 32, 102, 111, 114, 109, 97, 116, 32, 115, 116, 114, 105, 110, 103>>)
  ELSE IF i = Len(s)
       THEN RaiseMsg("ValueError", <<83, 105, 110, 103, 108, 101, 32, 39, 123, 39, 32, 101, 110, 99, 111, 117, 110, 116, 101, 114, 101, 100, 32, 105, 110, 32, 102, 111, 114, 109, 97, 116, 32, 115, 116, 114, 105, 110, 103>>)
  ELSE IF s[i + 1] = s[i] THEN FormatFrom(s, i + 2, exp, Append(out, s[i]))
  ELSE LET f    == ParseField(s, i + 1)
           text == FieldText(f.val, exp)
       IN  IF f.kind = "raise" THEN f
           ELSE IF text.kind = "raise" THEN text
           ELSE FormatFrom(s, f.val.next, exp, out \o text.val)

format_map(tmpl, exp) == FormatFrom(tmpl, 1, exp, <<>>)

\* A value of the links dict: a str template, or an object of another type
StrTemplate(s) == [isstr |-> TRUE, v |-> s]

NotAString == [isstr |-> FALSE, v |-> <<>>]

\* _render_links(templates, exp) giving up at the first template that is not
\* a str or fails to render
RECURSIVE render_links_stop(_, _, _, _)
render_links_stop(templates, exp, rendered, warnings) ==
  IF templates = <<>> THEN [rendered |-> rendered, warnings |-> warnings]
  ELSE LET name == Head(templates)[1]
           tmpl == Head(templates)[2]
           text == format_map(tmpl.v, exp)
       IN  IF ~tmpl.isstr
           THEN [rendered |-> rendered,
                 warnings |-> Append(warnings,
                   <<76, 105, 110, 107, 32, 116, 101, 109, 112, 108, 97, 116, 101, 32, 39>> \o name \o <<39, 32, 105, 115, 32, 110, 111, 116, 32, 97, 32, 115, 116, 114, 105, 110, 103, 59, 32, 115, 107, 105, 112, 112, 105, 110, 103, 46>>)]
           ELSE IF text.kind = "raise"
           THEN [rendered |-> rendered,
                 warnings |-> Append(warnings,
                   <<70, 97, 105, 108, 101, 100, 32, 116, 111, 32, 114, 101, 110, 100, 101, 114, 32, 108, 105, 110, 107, 32, 39>> \o name \o <<39, 58, 32>> \o text.val)]
           ELSE render_links_stop(Tail(templates), exp,
                                  SetItem(rendered, name, text.val), warnings)

\* _render_links(templates, exp): the rendered links and the warnings, the
\* templates taken in the order of the dict
RECURSIVE render_links(_, _, _, _)
render_links(templates, exp, rendered, warnings) ==
  IF templates = <<>> THEN [rendered |-> rendered, warnings |-> warnings]
  ELSE LET name == Head(templates)[1]
           tmpl == Head(templates)[2]
           text == format_map(tmpl.v, exp)
       IN  IF ~tmpl.isstr
           THEN render_links(Tail(templates), exp, rendered,
                  Append(warnings,
                    <<76, 105, 110, 107, 32, 116, 101, 109, 112, 108, 97, 116, 101, 32, 39>> \o name \o <<39, 32, 105, 115, 32, 110, 111, 116, 32, 97, 32, 115, 116, 114, 105, 110, 103, 59, 32, 115, 107, 105, 112, 112, 105, 110, 103, 46>>))
           ELSE IF text.kind = "raise"
           THEN render_links(Tail(templates), exp, rendered,
                  Append(warnings,
                    <<70, 97, 105, 108, 101, 100, 32, 116, 111, 32, 114, 101, 110, 100, 101, 114, 32, 108, 105, 110, 107, 32, 39>> \o name \o <<39, 58, 32>> \o text.val))
           ELSE render_links(Tail(templates), exp,
                             SetItem(rendered, name, text.val), warnings)

\* exp.provenance.setdefault(f"links.{k}", Provenance.SCHEMA) for each
\* rendered link
RECURSIVE links_provenance(_, _)
links_provenance(rendered, provenance) ==
  IF rendered = <<>> THEN provenance
  ELSE links_provenance(Tail(rendered),
         SetDefault(provenance, <<108, 105, 110, 107, 115, 46>> \o Head(rendered)[1], "schema"))

\* A schema_lookup callable: it raises RuntimeError("boom"), or returns the
\* schema for the one prefix it knows and None for any other
Lookup(raises, knows, schema) == [raises |-> raises, knows |-> knows, schema |-> schema]

\* schema_lookup(prefix)
CallLookup(f, prefix) ==
  IF f.raises THEN RaiseMsg("RuntimeError", <<98, 111, 111, 109>>)
  ELSE IF prefix = f.knows THEN Ok(Some(f.schema))
  ELSE Ok(None)

\* Whether explain calls schema_lookup, were enable_schema not consulted
LooksUp_always(parsed, schema_lookup, enable_schema) ==
  schema_lookup.some /\ parsed.prefix.v # <<>>

\* Whether explain calls schema_lookup: enable_schema and schema_lookup is
\* not None and parsed.prefix
LooksUp(parsed, schema_lookup, enable_schema) ==
  enable_schema /\ schema_lookup.some /\ parsed.prefix.v # <<>>

\* The warning explain adds when schema_lookup raises, without its head
lookup_warning_bare(msg) == msg

\* The warning explain adds when schema_lookup raises
lookup_warning(msg) == <<83, 99, 104, 101, 109, 97, 32, 108, 111, 111, 107, 117, 112, 32, 102, 97, 105, 108, 101, 100, 58, 32>> \o msg

\* explain, lines 79 to 90: the links rendered from the schema found, their
\* provenance and the provenance of the derived facts; r is what
\* _render_links returned
explain_finish(exp, r) ==
  Explanation(exp.id, exp.valid, exp.parsed, exp.schema, r.rendered,
              apply_derived_provenance(exp.parsed,
                                       links_provenance(r.rendered, exp.provenance)),
              exp.warnings \o r.warnings, exp.errors)

\* explain, lines 79 to 83: whether links are rendered, and the call of
\* _render_links
explain_links(exp, enable_links) ==
  IF enable_links /\ exp.schema.some /\ exp.schema.v.links # <<>>
  THEN explain_finish(exp, render_links(exp.schema.v.links, exp, <<>>, <<>>))
  ELSE explain_finish(exp, [rendered |-> <<>>, warnings |-> <<>>])

\* explain, lines 66 to 77: the explanation once schema_lookup has answered
\* (Ok(None) standing for a lookup that was not made)
explain_schema(id_str, parsed, answer) ==
  IF answer.kind = "raise"
  THEN Explanation(id_str, parsed.valid, parsed, None, <<>>, <<>>,
                   <<lookup_warning(answer.val)>>, parsed.errors)
  ELSE IF answer.val.some
  THEN Explanation(id_str, parsed.valid, parsed, answer.val, <<>>,
                   apply_schema_provenance(answer.val.v, <<>>), <<>>, parsed.errors)
  ELSE Explanation(id_str, parsed.valid, parsed, None, <<>>, <<>>, <<>>, parsed.errors)

\* explain, from line 50 on, parsed being what _parse_typeid returned and
\* looks whether schema_lookup is called: out is the Explanation returned,
\* called the arguments schema_lookup was called with, in order
explain_parsed(id_str, parsed, schema_lookup, looks, enable_links) ==
  IF ~parsed.valid \/ ~parsed.prefix.some \/ ~parsed.suffix.some
  THEN [out |-> Ok(Explanation(id_str, parsed.valid, parsed, None, <<>>, <<>>, <<>>,
                               parsed.errors)),
        called |-> <<>>]
  ELSE IF looks
  THEN [out |-> Ok(explain_links(
                     explain_schema(id_str, parsed,
                                    CallLookup(schema_lookup.v, parsed.prefix.v)),
                     enable_links)),
        called |-> <<parsed.prefix.v>>]
  ELSE [out |-> Ok(explain_links(explain_schema(id_str, parsed, Ok(None)), enable_links)),
        called |-> <<>>]

\* explain, given the outcome p of _parse_typeid(id_str)
explain_outcome(id_str, p, schema_lookup, enable_schema, enable_links) ==
  IF p.kind = "raise" THEN [out |-> p, called |-> <<>>]
  ELSE explain_parsed(id_str, p.val, schema_lookup,
                      LooksUp(p.val, schema_lookup, enable_schema), enable_links)

\* explain(id_str, schema_lookup=..., enable_schema=..., enable_links=...)
explain(id_str, schema_lookup, enable_schema, enable_links, fresh) ==
  explain_outcome(id_str, parse_typeid(id_str, fresh), schema_lookup, enable_schema,
                  enable_links)

-----------------------------------------------------------------------------
(* typeid/explain/registry.py *)

\* A value parsed from JSON or YAML: t is its Python type, and b, n, s or
\* items hold a bool, an int (or the whole number a float holds), a str, or
\* the (key, value) items of a dict in insertion order; a list is held by its
\* length n
J(t, b, n, s, items) == [t |-> t, b |-> b, n |-> n, s |-> s, items |-> items]

JNull == J("null", FALSE, 0, <<>>, <<>>)

JBool(b) == J("bool", b, 0, <<>>, <<>>)

JInt(n) == J("int", FALSE, n, <<>>, <<>>)

JFloat(n) == J("float", FALSE, n, <<>>, <<>>)

JStr(s) == J("str", FALSE, 0, s, <<>>)

JList(n) == J("list", FALSE, n, <<>>, <<>>)

JDict(items) == J("dict", FALSE, 0, <<>>, items)

\* isinstance(x, int): bool is a subclass of int
IsInt(x) == x.t \in {"int", "bool"}

\* x == 1 for an x that is an int: True == 1
EqualsOne(x) == (x.t = "int" /\ x.n = 1) \/ (x.t = "bool" /\ x.b)

\* bool(x)
JTruthy(x) ==
  CASE x.t = "null" -> FALSE
    [] x.t = "bool" -> x.b
    [] x.t \in {"int", "float", "list"} -> x.n # 0
    [] x.t = "str" -> x.s # <<>>
    [] x.t = "dict" -> x.items # <<>>

\* d.get(key) of the dict with these items, the key being a str
RECURSIVE Get(_, _)
Get(items, key) ==
  IF items = <<>> THEN JNull
  ELSE IF Head(items)[1] = JStr(key) THEN Head(items)[2]
  ELSE Get(Tail(items), key)

\* value if isinstance(value, str) else None
StrOrNone(x) == IF x.t = "str" THEN Some(x.s) ELSE None

\* value if isinstance(value, bool) else None
BoolOrNone(x) == IF x.t = "bool" THEN Some(x.b) ELSE None

\* {str(k): str(v) for k, v in links.items() if isinstance(k, str) and
\* isinstance(v, str)}
RECURSIVE StrLinks(_)
StrLinks(items) ==
  IF items = <<>> THEN <<>>
  ELSE IF Head(items)[1].t = "str" /\ Head(items)[2].t = "str"
  THEN <<<<Head(items)[1].s, StrTemplate(Head(items)[2].s)>>>> \o StrLinks(Tail(items))
  ELSE StrLinks(Tail(items))

\* _to_type_schema: links = spec.get("links") or {}, and {} again when that
\* is not a dict; the items of the dict
type_schema_links(links) ==
  IF JTruthy(links) /\ links.t = "dict" THEN links.items ELSE <<>>

\* _to_type_schema(prefix, spec); raw, a copy of spec, is not kept
to_type_schema(prefix, spec) ==
  TypeSchema(prefix,
             StrOrNone(Get(spec, <<110, 97, 109, 101>>)),
             StrOrNone(Get(spec, <<100, 101, 115, 99, 114, 105, 112, 116, 105, 111, 110>>)),
             StrOrNone(Get(spec, <<111, 119, 110, 101, 114, 95, 116, 101, 97, 109>>)),
             BoolOrNone(Get(spec, <<112, 105, 105>>)),
             StrOrNone(Get(spec, <<114, 101, 116, 101, 110, 116, 105, 111, 110>>)),
             StrLinks(type_schema_links(Get(spec, <<108, 105, 110, 107, 115>>))))

\* Whether load_registry skips the entry of types, were only its key examined
SkipsEntry_key(prefix, spec) == prefix.t # "str" \/ prefix.s = <<>>

\* Whether load_registry skips the entry (prefix, spec) of types
SkipsEntry(prefix, spec) ==
  \/ prefix.t # "str" \/ prefix.s = <<>>
  \/ spec.t # "dict"

\* load_registry, the loop over types_raw.items(): the types loaded
RECURSIVE load_types(_, _)
load_types(items, types) ==
  IF items = <<>> THEN types
  ELSE IF SkipsEntry(Head(items)[1], Head(items)[2])
  THEN load_types(Tail(items), types)
  ELSE load_types(Tail(items),
                  SetItem(types, Head(items)[1].s,
                          to_type_schema(Head(items)[1].s, Head(items)[2].items)))

\* SchemaRegistry(schema_version=..., types=..., source_path=path); the path
\* is the one load_registry was given
SchemaRegistry(schema_version, types) == [schema_version |-> schema_version, types |-> types]

\* RegistryLoadResult(registry=..., error=RegistryLoadError(code, message)),
\* the error held by its code, "" when it is None
RegistryLoadResult(registry, error) == [registry |-> registry, error |-> error]

LoadError(code) == RegistryLoadResult(None, code)

\* load_registry, lines 101 to 113: the error code for the schema_version
\* that is not None, "" for none
VersionError(schema_version) ==
  IF ~IsInt(schema_version) THEN "invalid_schema_version"
  ELSE IF ~EqualsOne(schema_version) THEN "unsupported_schema_version"
  ELSE ""

\* load_registry, from line 115 on: the types map
load_registry_types(schema_version, types_raw) ==
  IF types_raw.t = "null" THEN LoadError("missing_types")
  ELSE IF types_raw.t # "dict" THEN LoadError("invalid_types")
  ELSE RegistryLoadResult(Some(SchemaRegistry(schema_version, load_types(types_raw.items, <<>>))),
                          "")

\* load_registry, from line 95 on, for the root mapping with these items
load_registry_root(schema_version, types_raw) ==
  IF schema_version.t = "null" THEN LoadError("missing_schema_version")
  ELSE IF VersionError(schema_version) # "" THEN LoadError(VersionError(schema_version))
  ELSE load_registry_types(schema_version, types_raw)

\* load_registry(path), read being the outcome of _read_schema_file(path)
load_registry(read) ==
  IF read.kind = "raise" THEN LoadError("read_failed")
  ELSE IF read.val.t # "dict" THEN LoadError("invalid_schema")
  ELSE load_registry_root(Get(read.val.items, <<115, 99, 104, 101, 109, 97, 95, 118, 101, 114, 115, 105, 111, 110>>),
                          Get(read.val.items, <<116, 121, 112, 101, 115>>))

\* SchemaRegistry.get(prefix): self._types.get(prefix)
RECURSIVE SchemaRegistry_get(_, _)
SchemaRegistry_get(types, prefix) ==
  IF types = <<>> THEN None
  ELSE IF Head(types)[1] = prefix THEN Some(Head(types)[2])
  ELSE SchemaRegistry_get(Tail(types), prefix)

-----------------------------------------------------------------------------
(* typeid/explain/discovery.py *)

\* A path is the sequence of its parts; the directories are named, not
\* spelled out
DEFAULT_CWD_CANDIDATES == <<"typeid.schema.json", "typeid.schema.yaml", "typeid.schema.yml">>

DEFAULT_USER_CANDIDATES == <<"schema.json", "schema.yaml", "schema.yml">>

\* An environment variable that is unset, or set to "" (the empty path <<>>)
\* or to a path
Unset == [some |-> FALSE, v |-> <<>>]

\* _user_config_dir(): APPDATA, else XDG_CONFIG_HOME, else ~/.config
user_config_dir(environ) ==
  IF environ.APPDATA.some /\ environ.APPDATA.v # <<>> THEN environ.APPDATA.v
  ELSE IF environ.XDG_CONFIG_HOME.some /\ environ.XDG_CONFIG_HOME.v # <<>>
  THEN environ.XDG_CONFIG_HOME.v
  ELSE <<"home", ".config">>

\* DiscoveryResult(path, source)
DiscoveryResult(path, source) == [path |-> path, source |-> source]

\* The first of the names, from the i-th on, that is a file in the directory
\* base: the path, or None
RECURSIVE FirstFile(_, _, _, _)
FirstFile(base, names, i, files) ==
  IF i > Len(names) THEN None
  ELSE IF Append(base, names[i]) \in files THEN Some(Append(base, names[i]))
  ELSE FirstFile(base, names, i + 1, files)

\* discover_schema_path, step 3: the user config directory
discover_user(found) ==
  IF found.some THEN DiscoveryResult(found, "user_config")
  ELSE DiscoveryResult(None, "none")

\* discover_schema_path, steps 2 and 3: found is the candidate of the working
\* directory that is a file
discover_cwd(found, environ, files) ==
  IF found.some THEN DiscoveryResult(found, "cwd")
  ELSE discover_user(FirstFile(Append(user_config_dir(environ), "typeid"),
                               DEFAULT_USER_CANDIDATES, 1, files))

\* discover_schema_path(cwd=cwd), step 1: the environment variable
discover_env(environ, files) ==
  IF environ.TYPEID_SCHEMA.some /\ environ.TYPEID_SCHEMA.v # <<>>
  THEN IF environ.TYPEID_SCHEMA.v \in files
       THEN DiscoveryResult(environ.TYPEID_SCHEMA, "env:TYPEID_SCHEMA")
       ELSE DiscoveryResult(None, "env:TYPEID_SCHEMA (not found)")
  ELSE discover_cwd(FirstFile(<<"cwd">>, DEFAULT_CWD_CANDIDATES, 1, files), environ, files)

\* discover_schema_path(), in the environment environ with the files files
discover_schema_path(environ, files) == discover_env(environ, files)

-----------------------------------------------------------------------------
(* typeid/explain/formatters.py: the quoting of the pretty format *)

\* : # { } [ ] , \n \r \t -- the characters _quote_if_needed looks for
QuoteTriggers == {58, 35, 123, 125, 91, 93, 44, 10, 13, 9}

\* true, false, null, none -- the words _quote_if_needed compares s.lower() to
QuoteKeywords ==
  { <<116, 114, 117, 101>>, <<102, 97, 108, 115, 101>>, <<110, 117, 108, 108>>,
    <<110, 111, 110, 101>> }

\* str.lower(), for code points below 256
lower(s) ==
  [i \in 1 .. Len(s) |->
     IF s[i] \in UpperChars THEN s[i] + 32 ELSE s[i]]

\* s.strip() != s: the first or the last character is whitespace
StripChanges(s) == s # <<>> /\ (s[1] \in SpaceChars \/ s[Len(s)] \in SpaceChars)

\* s.replace("\\", "\\\\").replace('"', '\\"')
RECURSIVE escape(_)
escape(s) ==
  IF s = <<>> THEN <<>>
  ELSE (IF Head(s) \in {92, 34} THEN <<92, Head(s)>> ELSE <<Head(s)>>) \o escape(Tail(s))

\* _quote_if_needed without "#" among the characters it looks for
quote_if_needed_no_hash(s) ==
  IF s = <<>> THEN <<34, 34>>
  ELSE IF \/ Range(s) \cap (QuoteTriggers \ {35}) # {}
          \/ StripChanges(s)
          \/ lower(s) \in QuoteKeywords
       THEN <<34>> \o escape(s) \o <<34>>
       ELSE s

\* _quote_if_needed(s)
quote_if_needed(s) ==
  IF s = <<>> THEN <<34, 34>>
  ELSE IF \/ Range(s) \cap QuoteTriggers # {}
          \/ StripChanges(s)
          \/ lower(s) \in QuoteKeywords
       THEN <<34>> \o escape(s) \o <<34>>
       ELSE s

\* f"{value}" of a non-negative int
RECURSIVE Decimal(_)
Decimal(n) == IF n < 10 THEN <<48 + n>> ELSE Decimal(n \div 10) \o <<48 + (n % 10)>>

\* The text _emit_kv puts after "key: " for value: null for None, true or
\* false for a bool, the number for an int, and the str as _quote_if_needed
\* gives it
emit_value(value) ==
  IF value.t = "null" THEN <<110, 117, 108, 108>>
  ELSE IF value.t = "bool"
       THEN (IF value.b THEN <<116, 114, 117, 101>> ELSE <<102, 97, 108, 115, 101>>)
  ELSE IF value.t = "int" THEN Decimal(value.n)
  ELSE quote_if_needed(value.s)

\* The line _emit_kv appends for key and value under indent
emit_kv(indent, key, value) == indent \o key \o <<58, 32>> \o emit_value(value)

-----------------------------------------------------------------------------
(* The inputs the operations are applied to *)

\* Lengths are taken up to MaxSlack around 16 bytes, 26 symbols and the
\* longest prefix; short strings are all strings of at most MaxShort characters
MaxSlack == 1

MaxShort == 3

\* Identifiers generated in succession, and readings of the time source
MaxIds == 3

MaxClock == 3

\* Files present when a schema is looked for
MaxFiles == 2

\* Distinct prefixes cached_typeid_factory is asked for: one more than the
\* cache holds
MaxPrefixes == 257

\* Calls of one factory
MaxCalls == 3

\* Length of the strings over QuoteChars handed to _emit_kv
MaxQuoted == 2

RECURSIVE Repeat(_, _)
Repeat(c, n) == IF n <= 0 THEN <<>> ELSE Append(Repeat(c, n - 1), c)

SetAt(s, i, c) == [s EXCEPT ![i] = c]

ByteSeeds ==
  { Repeat(0, 16), Repeat(255, 16),
    <<0, 1, 2, 3, 4, 5, 6, 7, 8, 9, 10, 11, 12, 13, 14, 15>> }

ByteVals == {0, 1, 2, 4, 8, 16, 32, 64, 128, 255, 85, 170}

\* 16-byte values: each seed, and each seed with one byte replaced
Bytes16 ==
  ByteSeeds \cup {SetAt(b, i, v) : b \in ByteSeeds, i \in 1 .. 16, v \in ByteVals}

\* Byte lists of other lengths
BytesOther ==
  {<<>>} \cup {SubSeq(b, 1, 16 - k) : b \in ByteSeeds, k \in 1 .. MaxSlack}
         \cup {b \o Repeat(0, k) : b \in ByteSeeds, k \in 1 .. MaxSlack}

\* "00000000000000000000000000", "7zzzzzzzzzzzzzzzzzzzzzzzzz",
\* "00041061050r3gg28a1c60t3gf"
SeedSuffixes == {EncodeSymbols(b) : b \in ByteSeeds}

\* "!!!!!!!!!!!!!!!!!!!!!!!!!!"
AllInvalid == Repeat(33, 26)

\* "00041061050R3GG28A1C60T3GF"
UpperSuffix ==
  << 48, 48, 48, 52, 49, 48, 54, 49, 48, 53, 48, 82, 51,
     71, 71, 50, 56, 65, 49, 67, 54, 48, 84, 51, 71, 70 >>

\* Every symbol of the alphabet, and characters outside it: A Z I i l o u,
\* space, newline, "_", "!", DEL, e-acute (two bytes in UTF-8), superscript 2
EditChars ==
  Range(ALPHABET) \cup {65, 90, 73, 105, 108, 111, 117, Space, Newline, Underscore,
                         33, 127, 233, 178}

\* 26-character strings: each seed with one character replaced
EditedSuffixes ==
  {SetAt(s, i, c) : s \in SeedSuffixes \cup {AllInvalid}, i \in 1 .. 26, c \in EditChars}

\* Strings shorter and longer than 26 characters
OtherLengths ==
  {SubSeq(s, 1, n) : s \in SeedSuffixes \cup {AllInvalid}, n \in 0 .. 25}
    \cup {s \o Repeat(c, k) : s \in SeedSuffixes \cup {AllInvalid},
                              c \in {48, 33}, k \in 1 .. MaxSlack}
    \cup {<<97, 115, 100>>}

\* a _ A 1 newline space
ShortChars == {97, Underscore, 65, 49, Newline, Space}

RECURSIVE StringsUpTo(_)
StringsUpTo(n) ==
  IF n = 0 THEN {<<>>}
  ELSE LET shorter == StringsUpTo(n - 1)
       IN  shorter \cup {Append(s, c) : s \in shorter, c \in ShortChars}

ShortStrings == StringsUpTo(MaxShort)

\* "user", "a__b", "evt_payment", "double_prefix"
PrefixSamples ==
  { <<117, 115, 101, 114>>, <<97, 95, 95, 98>>,
    <<101, 118, 116, 95, 112, 97, 121, 109, 101, 110, 116>>,
    <<100, 111, 117, 98, 108, 101, 95, 112, 114, 101, 102, 105, 120>> }

\* Prefixes around the longest the pattern admits: letters only, with a
\* trailing newline, and underscores between two letters
LongPrefixes ==
  UNION { { Repeat(97, n), Append(Repeat(97, n), Newline),
            <<97>> \o Repeat(Underscore, n - 2) \o <<97>> }
          : n \in (RegexMidMax + 2 - MaxSlack) .. (RegexMidMax + 2 + MaxSlack) }

PrefixStrings == ShortStrings \cup PrefixSamples \cup LongPrefixes

\* Suffixes for identifiers: two valid ones, one whose first symbol is 8,
\* one of 25 characters, one in upper case
SuffixSamples ==
  { Repeat(48, 26), EncodeSymbols(<<0, 1, 2, 3, 4, 5, 6, 7, 8, 9, 10, 11, 12, 13, 14, 15>>),
    <<56>> \o Repeat(48, 25), Repeat(48, 25), UpperSuffix }

TypeIDStrings ==
  {p \o <<Underscore>> \o s : p \in PrefixStrings,
                              s \in SuffixSamples \cup {<<>>, <<Space>>}}

StrInputs ==
  SeedSuffixes \cup {AllInvalid, UpperSuffix} \cup EditedSuffixes \cup OtherLengths
    \cup PrefixStrings \cup TypeIDStrings

\* Arguments of TypeID(prefix, suffix)
CtorPrefixes == {None} \cup {Some(p) : p \in PrefixStrings}

CtorSuffixes == {None, Some(<<>>)} \cup {Some(s) : s \in SuffixSamples}

\* Prefixes for from_uuid: None, "", "user", "A", "a_b"
UuidPrefixes ==
  {None, Some(<<>>), Some(<<117, 115, 101, 114>>), Some(<<65>>), Some(<<97, 95, 98>>)}

\* What uuid6.uuid7() may return: the timestamps 0, 1, 1700000000000
\* (2023-11-14) and 2^48 - 1, as 6 bytes
Timestamps ==
  { <<0, 0, 0, 0, 0, 0>>, <<0, 0, 0, 0, 0, 1>>, <<1, 139, 207, 229, 104, 0>>,
    <<255, 255, 255, 255, 255, 255>> }

Uuid7Values == {Uuid7(ts, r) : ts \in Timestamps, r \in {0, 255}}

\* Operands of the comparisons: TypeIDs built from the prefixes None, "",
\* "plov", "abcd", "p" and from suffixes that differ in the first, an inner
\* and the last symbol, across the digit/letter boundary of the alphabet
PairPrefixes ==
  {None, Some(<<>>), Some(<<112, 108, 111, 118>>), Some(<<97, 98, 99, 100>>), Some(<<112>>)}

\* "00041061050r3gg28a1c60t3gf" and neighbours of the all-zero suffix
PairSuffixes ==
  { Repeat(48, 26),
    <<48, 48, 48, 52, 49, 48, 54, 49, 48, 53, 48, 114, 51, 103, 103, 50, 56, 97, 49, 99, 54, 48, 116, 51, 103, 102>>,
    <<55>> \o Repeat(122, 25),
    SetAt(Repeat(48, 26), 26, 57), SetAt(Repeat(48, 26), 26, 97),
    SetAt(Repeat(48, 26), 26, 122), SetAt(Repeat(48, 26), 25, 49) }

PairTypeIDs ==
  { r.val : r \in { r \in { TypeID_init(p, Some(s), <<>>) :
                              p \in PairPrefixes, s \in PairSuffixes } :
                    r.kind = "ok" } }

\* The right-hand operand may also be a str
PairOthers ==
  PairTypeIDs \cup {StrObject(<<112, 108, 111, 118, 95, 48, 48, 48, 52, 49, 48, 54, 49, 48, 53, 48, 114, 51, 103, 103, 50, 56, 97, 49, 99, 54, 48, 116, 51, 103, 102>>)}

MkPair(self, other) == [kind |-> "pair", self |-> self, other |-> other]

PairInputs == {MkPair(a, b) : a \in PairTypeIDs, b \in PairOthers}

\* Identifier strings given to explain: five that parse (one without a
\* prefix, one whose timestamp is past the last datetime, one with a newline
\* in the prefix) and seven that do not
ExplainValidIds ==
  { <<120, 95, 48, 48, 48, 48, 48, 48, 48, 48, 48, 48, 48, 48, 48, 48, 48, 48, 48, 48, 48, 48, 48, 48, 48, 48, 48, 48>>,
    <<117, 115, 114, 95, 48, 48, 48, 52, 49, 48, 54, 49, 48, 53, 48, 114, 51, 103, 103, 50, 56, 97, 49, 99, 54, 48, 116, 51, 103, 102>>,
    <<55, 122, 122, 122, 122, 122, 122, 122, 122, 122, 122, 122, 122, 122, 122, 122, 122, 122, 122, 122, 122, 122, 122, 122, 122, 122>>,
    <<48, 48, 48, 48, 48, 48, 48, 48, 48, 48, 48, 48, 48, 48, 48, 48, 48, 48, 48, 48, 48, 48, 48, 48, 48, 48>>,
    <<117, 115, 114, 10, 95, 48, 48, 48, 48, 48, 48, 48, 48, 48, 48, 48, 48, 48, 48, 48, 48, 48, 48, 48, 48, 48, 48, 48, 48, 48, 48>> }

ExplainInvalidIds ==
  { <<110, 111, 116, 95, 97, 95, 116, 121, 112, 101, 105, 100>>,
    <<117, 115, 114, 95, 98, 97, 100, 83, 117, 102, 102, 105, 120>>,
    <<117, 115, 114, 95>>,
    <<95, 48, 48, 48, 48, 48, 48, 48, 48, 48, 48, 48, 48, 48, 48, 48, 48, 48, 48, 48, 48, 48, 48, 48, 48, 48, 48>>,
    <<>>,
    <<97, 115, 100>>,
    <<97, 95, 98, 95, 99>> }

\* Link templates: "{0}", "{}", "{x!r}", "{id!r}", "{id!a}", "{x[0]}"
\*   "{x[9]}", "{x[a]}", "{ x }", "{{id}}", "}", "{"
\*   "{id", "{x.}", "{x[0]y}", "{x!z}", "{x!}", "{x!r"
\*   "{x!rr}", "{x[}", "{x{}", "{x:s}", "{x:>4}", "{a.b}"
\*   "{id}}}", "{prefix}{suffix}", "{created_at}", "{uuid}", "{Id}", "{id.x}"
\*   "{x!s:s}", "no fields"
Templates ==
  { <<123, 48, 125>>,
    <<123, 125>>,
    <<123, 120, 33, 114, 125>>,
    <<123, 105, 100, 33, 114, 125>>,
    <<123, 105, 100, 33, 97, 125>>,
    <<123, 120, 91, 48, 93, 125>>,
    <<123, 120, 91, 57, 93, 125>>,
    <<123, 120, 91, 97, 93, 125>>,
    <<123, 32, 120, 32, 125>>,
    <<123, 123, 105, 100, 125, 125>>,
    <<125>>,
    <<123>>,
    <<123, 105, 100>>,
    <<123, 120, 46, 125>>,
    <<123, 120, 91, 48, 93, 121, 125>>,
    <<123, 120, 33, 122, 125>>,
    <<123, 120, 33, 125>>,
    <<123, 120, 33, 114>>,
    <<123, 120, 33, 114, 114, 125>>,
    <<123, 120, 91, 125>>,
    <<123, 120, 123, 125>>,
    <<123, 120, 58, 115, 125>>,
    <<123, 120, 58, 62, 52, 125>>,
    <<123, 97, 46, 98, 125>>,
    <<123, 105, 100, 125, 125, 125>>,
    <<123, 112, 114, 101, 102, 105, 120, 125, 123, 115, 117, 102, 102, 105, 120, 125>>,
    <<123, 99, 114, 101, 97, 116, 101, 100, 95, 97, 116, 125>>,
    <<123, 117, 117, 105, 100, 125>>,
    <<123, 73, 100, 125>>,
    <<123, 105, 100, 46, 120, 125>>,
    <<123, 120, 33, 115, 58, 115, 125>>,
    <<110, 111, 32, 102, 105, 101, 108, 100, 115>> }

\* The links dicts of the schemas: those of the tests, one with a value that
\* is not a str before a template, one with a failing template before one
\* that renders, and one for each of Templates
LinkDicts ==
  { <<>>,
    << <<<<108, 111, 103, 115>>, StrTemplate(<<104, 116, 116, 112, 115, 58, 47, 47, 108, 111, 103, 115, 46, 108, 111, 99, 97, 108, 47, 115, 101, 97, 114, 99, 104, 63, 113, 61, 123, 105, 100, 125>>)>>,
       <<<<116, 114, 97, 99, 101>>, StrTemplate(<<104, 116, 116, 112, 115, 58, 47, 47, 116, 114, 97, 99, 101, 46, 108, 111, 99, 97, 108, 47, 63, 105, 100, 61, 123, 105, 100, 125, 38, 117, 117, 105, 100, 61, 123, 117, 117, 105, 100, 125>>)>> >>,
    << <<<<120>>, StrTemplate(<<104, 116, 116, 112, 58, 47, 47, 120, 47, 123, 100, 111, 101, 115, 95, 110, 111, 116, 95, 101, 120, 105, 115, 116, 125, 47, 123, 105, 100, 125>>)>> >>,
    << <<<<98, 97, 100>>, NotAString>>,
       <<<<111, 107>>, StrTemplate(<<123, 112, 114, 101, 102, 105, 120, 125, 47, 123, 115, 117, 102, 102, 105, 120, 125, 47, 123, 99, 114, 101, 97, 116, 101, 100, 95, 97, 116, 125>>)>> >>,
    << <<<<97>>, StrTemplate(<<104, 116, 116, 112, 58, 47, 47, 120, 47, 123, 97, 46, 98, 125>>)>>,
       <<<<98>>, StrTemplate(<<123, 105, 100, 125>>)>>,
       <<<<99>>, StrTemplate(<<125>>)>>,
       <<<<100>>, StrTemplate(<<123, 117, 117, 105, 100, 125>>)>> >> }
    \cup { << <<<<116>>, StrTemplate(t)>> >> : t \in Templates }

\* TypeSchema(prefix="usr", ...): with every optional field, and with none
Schemas ==
  { TypeSchema(<<117, 115, 114>>, Some(<<85, 115, 101, 114>>), Some(<<65, 32, 117, 115, 101, 114>>), Some(<<105, 100, 101, 110, 116, 105, 116, 121>>),
               Some(FALSE), Some(<<55, 121>>), links) : links \in LinkDicts }
    \cup { TypeSchema(<<117, 115, 114>>, None, None, None, None, None, links) :
           links \in { <<>>,
                       << <<<<108, 111, 103, 115>>, StrTemplate(<<104, 116, 116, 112, 115, 58, 47, 47, 108, 111, 103, 115, 46, 108, 111, 99, 97, 108, 47, 115, 101, 97, 114, 99, 104, 63, 113, 61, 123, 105, 100, 125>>)>>,
       <<<<116, 114, 97, 99, 101>>, StrTemplate(<<104, 116, 116, 112, 115, 58, 47, 47, 116, 114, 97, 99, 101, 46, 108, 111, 99, 97, 108, 47, 63, 105, 100, 61, 123, 105, 100, 125, 38, 117, 117, 105, 100, 61, 123, 117, 117, 105, 100, 125>>)>> >> } }

\* schema_lookup: None, a callable that raises, one that knows "usr", "x" or
\* "" and one that knows none of the prefixes explained
Lookups ==
  {None}
    \cup {Some(Lookup(TRUE, <<>>, s)) : s \in {TypeSchema(<<>>, None, None, None, None, None, <<>>)}}
    \cup {Some(Lookup(FALSE, <<117, 115, 114>>, s)) : s \in Schemas}
    \cup {Some(Lookup(FALSE, k, TypeSchema(k, Some(<<79, 116, 104, 101, 114>>), None, None, None, None,
                                           << <<<<116>>, StrTemplate(<<123, 99, 114, 101, 97, 116, 101, 100, 95, 97, 116, 125>>)>> >>))) :
          k \in {<<120>>, <<>>, <<111, 114, 100>>}}

\* Lookups for the identifier strings of one-character and sample prefixes
FewLookups ==
  {None}
    \cup {Some(Lookup(TRUE, <<>>, TypeSchema(<<>>, None, None, None, None, None, <<>>)))}
    \cup {Some(Lookup(FALSE, <<97>>, TypeSchema(<<97>>, Some(<<65>>), None, None, None, None,
                                               << <<<<116>>, StrTemplate(<<123, 105, 100, 125, 47, 123, 120, 125>>)>> >>)))}

MkExplain(s, f, es, el) ==
  [kind |-> "explain", str |-> s, schema_lookup |-> f, enable_schema |-> es,
   enable_links |-> el]

ExplainInputs ==
  {MkExplain(s, f, es, el) : s \in ExplainValidIds \cup ExplainInvalidIds,
                             f \in Lookups, es \in BOOLEAN, el \in BOOLEAN}
    \cup {MkExplain(s, None, TRUE, TRUE) : s \in StrInputs}
    \cup {MkExplain(p \o <<Underscore>> \o s, f, TRUE, TRUE) :
            p \in StringsUpTo(1) \cup PrefixSamples, s \in SuffixSamples, f \in FewLookups}

\* Strings up to n characters over chars
RECURSIVE StringsOver(_, _)
StringsOver(chars, n) ==
  IF n = 0 THEN {<<>>}
  ELSE LET shorter == StringsOver(chars, n - 1)
       IN  shorter \cup {Append(s, c) : s \in shorter, c \in chars}

\* The characters _quote_if_needed looks for, a space, a vertical tab, a
\* quote, a backslash, a, T, 0, e with an acute accent
QuoteChars == QuoteTriggers \cup {Space, 11, 34, 92, 97, 84, 48, 233}

\* The words in lower case, in upper case and capitalised, and words next to
\* them: "nul", "truer", "nil", "yes"
KeywordStrings ==
  QuoteKeywords
    \cup {[i \in 1 .. Len(w) |-> w[i] - 32] : w \in QuoteKeywords}
    \cup {[i \in 1 .. Len(w) |-> IF i = 1 THEN w[i] - 32 ELSE w[i]] : w \in QuoteKeywords}
    \cup {<<110, 117, 108>>, <<116, 114, 117, 101, 114>>, <<110, 105, 108>>, <<121, 101, 115>>}

\* str values handed to _emit_kv
QuoteStrings == StringsOver(QuoteChars, MaxQuoted) \cup KeywordStrings

\* The values the callers of _emit_kv pass: None, a bool, a str; and an int
EmitInputs ==
  {[kind |-> "emit", indent |-> <<Space, Space>>, key |-> <<107>>, value |-> v] :
     v \in {JNull, JBool(TRUE), JBool(FALSE), JInt(0), JInt(42)} \cup {JStr(s) : s \in QuoteStrings}}

\* Values of schema_version: absent or null, 1, other integers, true and
\* false, 1.0, "1", a list
SchemaVersions ==
  {JNull, JInt(1), JInt(0), JInt(2), JBool(TRUE), JBool(FALSE), JFloat(1), JStr(<<49>>),
   JList(0)}

\* Values of links in a type entry: a map with a str template, one with a
\* value and a key that are not str, a list, a str, the empty map
LinksValues ==
  { JDict(<< <<JStr(<<108>>), JStr(<<123, 105, 100, 125>>)>> >>),
    JDict(<< <<JStr(<<110>>), JInt(5)>>, <<JInt(7), JStr(<<120>>)>>,
             <<JStr(<<108>>), JStr(<<123, 105, 100, 125>>)>> >>),
    JList(2), JList(0), JStr(<<104>>), JDict(<<>>) }

\* Values of a type entry: maps with name "User", pii false and one of the
\* links values, a map with fields of the wrong types, the empty map, a list,
\* a str and null
TypeSpecs ==
  { JDict(<< <<JStr(<<110, 97, 109, 101>>), JStr(<<85, 115, 101, 114>>)>>,
             <<JStr(<<112, 105, 105>>), JBool(FALSE)>>,
             <<JStr(<<108, 105, 110, 107, 115>>), l>> >>) : l \in LinksValues }
    \cup { JDict(<< <<JStr(<<110, 97, 109, 101>>), JInt(1)>>,
                    <<JStr(<<112, 105, 105>>), JStr(<<110, 111>>)>>,
                    <<JStr(<<114, 101, 116, 101, 110, 116, 105, 111, 110>>), JStr(<<55, 121>>)>> >>),
           JDict(<<>>), JList(1), JStr(<<117>>), JNull }

\* The keys of the types map, in the order of the file: "usr", "", 5, "ord"
TypeKeys == <<JStr(<<117, 115, 114>>), JStr(<<>>), JInt(5), JStr(<<111, 114, 100>>)>>

\* The maps of types: each key absent or with an entry, "usr" with any of the
\* type entries, the other keys with a map or a list
RECURSIVE TypesItems(_)
TypesItems(i) ==
  IF i > Len(TypeKeys) THEN {<<>>}
  ELSE LET rest   == TypesItems(i + 1)
           values == IF i = 1 THEN TypeSpecs
                     ELSE {JDict(<< <<JStr(<<110, 97, 109, 101>>), JStr(<<79>>)>> >>), JList(1)}
       IN  rest \cup {<< <<TypeKeys[i], v>> >> \o r : v \in values, r \in rest}

\* Values of types: absent or null, a list, a str, and the maps
TypesValues(maps) == {JNull, JList(0), JStr(<<116>>)} \cup {JDict(m) : m \in maps}

\* The root mapping with this schema_version and these types, a value that is
\* null being left out
RootItems(schema_version, types) ==
  (IF schema_version = JNull THEN <<>>
   ELSE << <<JStr(<<115, 99, 104, 101, 109, 97, 95, 118, 101, 114, 115, 105, 111, 110>>), schema_version>> >>)
    \o (IF types = JNull THEN <<>> ELSE << <<JStr(<<116, 121, 112, 101, 115>>), types>> >>)

\* What _read_schema_file gives: an exception, a root that is not a map, and
\* root maps; the versions 1 and true come with every map of types, the
\* others with a few
RegistryReads ==
  {Raise("FileNotFoundError"), Raise("JSONDecodeError"), Ok(JList(0)), Ok(JStr(<<>>)), Ok(JNull)}
    \cup {Ok(JDict(RootItems(v, t))) : v \in {JInt(1), JBool(TRUE)},
                                       t \in TypesValues(TypesItems(1))}
    \cup {Ok(JDict(RootItems(v, t))) : v \in SchemaVersions,
                                       t \in TypesValues({<<>>, << <<TypeKeys[1], JDict(<<>>)>> >>})}
    \cup {Ok(JDict(<< <<JStr(<<115, 99, 104, 101, 109, 97, 95, 118, 101, 114, 115, 105, 111, 110>>), JNull>>,
                      <<JStr(<<116, 121, 112, 101, 115>>), JDict(<<>>)>> >>))}

RegistryInputs == {[kind |-> "registry", read |-> r] : r \in RegistryReads}

\* Environments: TYPEID_SCHEMA unset, empty, a path elsewhere or the first
\* candidate of the working directory; APPDATA and XDG_CONFIG_HOME unset,
\* empty or set
Environs ==
  [TYPEID_SCHEMA   : {Unset, Some(<<>>), Some(<<"elsewhere", "s.json">>),
                      Some(<<"cwd", "typeid.schema.json">>)},
   APPDATA         : {Unset, Some(<<>>), Some(<<"appdata">>)},
   XDG_CONFIG_HOME : {Unset, Some(<<"xdg">>)}]

\* The paths that may be files: the candidates of the working directory and
\* of each user config directory, and the path elsewhere
SomePaths ==
  {<<"elsewhere", "s.json">>}
    \cup {<<"cwd", DEFAULT_CWD_CANDIDATES[i]>> : i \in 1 .. 3}
    \cup {d \o <<"typeid", DEFAULT_USER_CANDIDATES[i]>> :
            d \in {<<"appdata">>, <<"xdg">>, <<"home", ".config">>}, i \in 1 .. 3}

\* File systems: at most MaxFiles of the paths are files
FileSets == {f \in SUBSET SomePaths : Cardinality(f) <= MaxFiles}

DiscoverInputs == {[kind |-> "discover", environ |-> e, files |-> f] : e \in Environs, f \in FileSets}

\* Adapters and the TypeIDs bound through them: the adapter prefixes None,
\* "", "user" and "p"; identifiers without a prefix, with the empty prefix and
\* with "user" and "p", their suffixes version-7 values, the all-zero value
\* and the greatest value
AdapterInputs ==
  {[kind |-> "adapter", adapter |-> TypeIDType(p), value |-> MkTypeID(q, s)] :
     p \in {None, Some(<<>>), Some(<<117, 115, 101, 114>>), Some(<<112>>)},
     q \in {None, Some(<<>>), Some(<<117, 115, 101, 114>>), Some(<<112>>)},
     s \in {EncodeSymbols(u) : u \in Uuid7Values} \cup {Repeat(48, 26), <<55>> \o Repeat(122, 25)}}

MkInput(k, b, s, p, x) == [kind |-> k, bytes |-> b, str |-> s, prefix |-> p, suffix |-> x]

Inputs ==
  {MkInput("bytes", b, <<>>, None, None) : b \in Bytes16 \cup BytesOther}
    \cup {MkInput("str", <<>>, s, None, None) : s \in StrInputs}
    \cup {MkInput("ctor", <<>>, <<>>, p, x) : p \in CtorPrefixes, x \in CtorSuffixes}
    \cup {MkInput("uuid", b, <<>>, p, None) : b \in Bytes16, p \in UuidPrefixes}
    \cup {MkInput("uuid", b, <<>>, p, None) : b \in Uuid7Values, p \in {None, Some(<<120>>)}}
    \cup PairInputs
    \cup ExplainInputs
    \cup RegistryInputs
    \cup DiscoverInputs
    \cup EmitInputs
    \cup AdapterInputs

-----------------------------------------------------------------------------
(* The state machine: an input, the last call made on it and its outcome *)

\* op: the operation called; self: the TypeID it was called on (str, reparse);
\* gen: the value uuid6.uuid7() returned during the call, <<>> if not called
MkCall(op, self, gen) == [op |-> op, self |-> self, gen |-> gen]

Constructors == {"TypeID", "from_string", "from_uuid"}

Init ==
  /\ input \in Inputs
  /\ call = MkCall("none", NoTypeID, <<>>)
  /\ ret = [kind |-> "none", exc |-> "", val |-> NoneVal]
  /\ clock = 0
  /\ last_v7_timestamp = None
  /\ ids = <<>>
  /\ called = <<>>
  /\ cache = <<>>
  /\ allocated = 0
  /\ held = NoFactory
  /\ asked = 0

\* What uuid6.uuid7() returns in a call: one of Uuid7Values when the call
\* reaches it, nothing (<<>>) when it does not
FreshChoices(generates) == IF generates THEN Uuid7Values ELSE {<<>>}

\* No operation has been applied to the input yet
Fresh == call.op = "none"

\* The millisecond the time source reads at tick n, as the 6 bytes uuid7 lays
\* down: 1700000000254 + n, so that the low byte carries within a few ticks
TsBytes(n) == <<1, 139, 207, 229, 104 + ((254 + n) \div 256), (254 + n) % 256>>

\* The timestamp uuid6.uuid7() stamps when the time source reads now and the
\* last timestamp it stamped is last, without the step past last
uuid7_timestamp_clock(now, last) == now

\* The timestamp uuid6.uuid7() stamps: the time source's reading, or one past
\* the last timestamp stamped when the reading is not later than it
uuid7_timestamp(now, last) ==
  IF last.some /\ now <= last.v THEN last.v + 1 ELSE now

Encode ==
  /\ Fresh
  /\ input.kind = "bytes"
  /\ call' = MkCall("encode", NoTypeID, <<>>)
  /\ ret' = encode(input.bytes)
  /\ UNCHANGED <<input, env>>

Decode ==
  /\ Fresh
  /\ input.kind = "str"
  /\ call' = MkCall("decode", NoTypeID, <<>>)
  /\ ret' = decode(input.str)
  /\ UNCHANGED <<input, env>>

ValidatePrefix ==
  /\ Fresh
  /\ input.kind = "str"
  /\ call' = MkCall("validate_prefix", NoTypeID, <<>>)
  /\ ret' = validate_prefix(input.str)
  /\ UNCHANGED <<input, env>>

ValidateSuffix ==
  /\ Fresh
  /\ input.kind = "str"
  /\ call' = MkCall("validate_suffix", NoTypeID, <<>>)
  /\ ret' = validate_suffix(input.str)
  /\ UNCHANGED <<input, env>>

GetPrefixAndSuffix ==
  /\ Fresh
  /\ input.kind = "str"
  /\ call' = MkCall("get_prefix_and_suffix", NoTypeID, <<>>)
  /\ ret' = get_prefix_and_suffix(input.str)
  /\ UNCHANGED <<input, env>>

\* TypeID(prefix, suffix)
New ==
  /\ Fresh
  /\ input.kind = "ctor"
  /\ \E fresh \in FreshChoices(Generates(input.suffix)) :
       /\ call' = MkCall("TypeID", NoTypeID, fresh)
       /\ ret' = TypeID_init(input.prefix, input.suffix, fresh)
  /\ UNCHANGED <<input, env>>

\* Whether from_string(string) reaches uuid6.uuid7(): __init__ runs only if the
\* split succeeded, and generates only if the suffix it is given is falsy
FromStringGenerates(string) ==
  LET ps == get_prefix_and_suffix(string)
  IN  ps.kind = "ok" /\ Generates(Some(ps.val[2]))

\* TypeID.from_string(string)
FromString ==
  /\ Fresh
  /\ input.kind = "str"
  /\ \E fresh \in FreshChoices(FromStringGenerates(input.str)) :
       /\ call' = MkCall("from_string", NoTypeID, fresh)
       /\ ret' = from_string(input.str, fresh)
  /\ UNCHANGED <<input, env>>

\* TypeID.from_uuid(uuid, prefix)
FromUuid ==
  /\ Fresh
  /\ input.kind = "uuid"
  /\ \E fresh \in FreshChoices(Generates(Some(convert_uuid_to_b32(input.bytes).val))) :
       /\ call' = MkCall("from_uuid", NoTypeID, fresh)
       /\ ret' = from_uuid(input.bytes, input.prefix, fresh)
  /\ UNCHANGED <<input, env>>

\* str(t) of the TypeID just constructed
Str ==
  /\ call.op \in Constructors
  /\ ret.kind = "ok"
  /\ call' = MkCall("str", ret.val, <<>>)
  /\ ret' = Ok(TypeID_str(ret.val))
  /\ UNCHANGED <<input, env>>

\* TypeID.from_string(str(t)) of the TypeID just constructed
Reparse ==
  /\ call.op \in Constructors
  /\ ret.kind = "ok"
  /\ \E fresh \in FreshChoices(FromStringGenerates(TypeID_str(ret.val))) :
       /\ call' = MkCall("reparse", ret.val, fresh)
       /\ ret' = from_string(TypeID_str(ret.val), fresh)
  /\ UNCHANGED <<input, env>>

\* t.uuid of the TypeID just constructed
Uuid ==
  /\ call.op \in Constructors
  /\ ret.kind = "ok"
  /\ call' = MkCall("uuid", ret.val, <<>>)
  /\ ret' = TypeID_uuid(ret.val)
  /\ UNCHANGED <<input, env>>

\* self == other
Eq ==
  /\ Fresh
  /\ input.kind = "pair"
  /\ call' = MkCall("eq", input.self, <<>>)
  /\ ret' = Ok(TypeID_eq(input.self, input.other))
  /\ UNCHANGED <<input, env>>

\* hash(self)
Hash ==
  /\ Fresh
  /\ input.kind = "pair"
  /\ call' = MkCall("hash", input.self, <<>>)
  /\ ret' = Ok(TypeID_hash(input.self))
  /\ UNCHANGED <<input, env>>

\* self > other
Gt ==
  /\ Fresh
  /\ input.kind = "pair"
  /\ call' = MkCall("gt", input.self, <<>>)
  /\ ret' = Operator(TypeID_gt(input.self, input.other))
  /\ UNCHANGED <<input, env>>

\* self >= other
Ge ==
  /\ Fresh
  /\ input.kind = "pair"
  /\ call' = MkCall("ge", input.self, <<>>)
  /\ ret' = Operator(TypeID_ge(input.self, input.other))
  /\ UNCHANGED <<input, env>>

\* self < other
Lt ==
  /\ Fresh
  /\ input.kind = "pair"
  /\ call' = MkCall("lt", input.self, <<>>)
  /\ ret' = Reflected_gt(input.self, input.other)
  /\ UNCHANGED <<input, env>>

\* self <= other
Le ==
  /\ Fresh
  /\ input.kind = "pair"
  /\ call' = MkCall("le", input.self, <<>>)
  /\ ret' = Reflected_ge(input.self, input.other)
  /\ UNCHANGED <<input, env>>

\* The time source moves to another reading: forwards, or backwards when the
\* wall clock is adjusted
Tick ==
  /\ input.kind \in {"gen", "factory"}
  /\ \E now \in 0 .. MaxClock :
       /\ now # clock
       /\ clock' = now
  /\ UNCHANGED <<input, call, ret, last_v7_timestamp, ids, called, factories>>

\* TypeID(prefix) once more: uuid6.uuid7() stamps the next value, which
\* becomes the suffix of the new identifier
Generate ==
  /\ input.kind = "gen"
  /\ Len(ids) < MaxIds
  /\ \E r \in {0, 255} :
       LET ts == uuid7_timestamp(clock, last_v7_timestamp)
           fresh == Uuid7(TsBytes(ts), r)
           made == TypeID_init(input.prefix, input.suffix, fresh)
       IN  /\ call' = MkCall("TypeID", NoTypeID, fresh)
           /\ ret' = made
           /\ last_v7_timestamp' = Some(ts)
           /\ ids' = IF made.kind = "ok" THEN Append(ids, made.val) ELSE ids
  /\ UNCHANGED <<input, clock, called, factories>>

\* explain(id_str, schema_lookup=..., enable_schema=..., enable_links=...)
Explain ==
  /\ Fresh
  /\ input.kind = "explain"
  /\ \E fresh \in FreshChoices(FromStringGenerates(input.str)) :
       LET e == explain(input.str, input.schema_lookup, input.enable_schema,
                        input.enable_links, fresh)
       IN  /\ call' = MkCall("explain", NoTypeID, fresh)
           /\ ret' = e.out
           /\ called' = called \o e.called
  /\ UNCHANGED <<input, clock, last_v7_timestamp, ids, factories>>

\* load_registry(path), the file at path reading as input.read
LoadRegistry ==
  /\ Fresh
  /\ input.kind = "registry"
  /\ call' = MkCall("load_registry", NoTypeID, <<>>)
  /\ ret' = Ok(load_registry(input.read))
  /\ UNCHANGED <<input, env>>

\* discover_schema_path()
Discover ==
  /\ Fresh
  /\ input.kind = "discover"
  /\ call' = MkCall("discover_schema_path", NoTypeID, <<>>)
  /\ ret' = Ok(discover_schema_path(input.environ, input.files))
  /\ UNCHANGED <<input, env>>

\* _emit_kv(lines, indent, key, value): ret is the line appended
EmitKv ==
  /\ Fresh
  /\ input.kind = "emit"
  /\ call' = MkCall("_emit_kv", NoTypeID, <<>>)
  /\ ret' = Ok(emit_kv(input.indent, input.key, input.value))
  /\ UNCHANGED <<input, env>>

\* adapter.process_bind_param(value, dialect)
ProcessBindParam ==
  /\ Fresh
  /\ input.kind = "adapter"
  /\ call' = MkCall("process_bind_param", input.value, <<>>)
  /\ ret' = process_bind_param(input.adapter, input.value)
  /\ UNCHANGED <<input, env>>

\* adapter.process_result_value(u, dialect) of the UUID just bound
ProcessResultValue ==
  /\ call.op = "process_bind_param"
  /\ ret.kind = "ok"
  /\ \E fresh \in FreshChoices(Generates(Some(convert_uuid_to_b32(ret.val).val))) :
       /\ call' = MkCall("process_result_value", input.value, fresh)
       /\ ret' = process_result_value(input.adapter, ret.val, fresh)
  /\ UNCHANGED <<input, env>>

Next ==
  \/ Encode
  \/ Decode
  \/ ValidatePrefix
  \/ ValidateSuffix
  \/ GetPrefixAndSuffix
  \/ New
  \/ FromString
  \/ FromUuid
  \/ Str
  \/ Reparse
  \/ Uuid
  \/ Eq
  \/ Hash
  \/ Gt
  \/ Ge
  \/ Lt
  \/ Le
  \/ Explain
  \/ LoadRegistry
  \/ Discover
  \/ EmitKv
  \/ ProcessBindParam
  \/ ProcessResultValue

Spec == Init /\ [][Next]_vars

\* Identifiers generated one after another for one prefix
GenInputs ==
  {MkInput("gen", <<>>, <<>>, p, None) : p \in {None, Some(<<120>>), Some(<<117, 115, 114>>)}}

InitGen ==
  /\ input \in GenInputs
  /\ call = MkCall("none", NoTypeID, <<>>)
  /\ ret = [kind |-> "none", exc |-> "", val |-> NoneVal]
  /\ clock \in 0 .. MaxClock
  /\ last_v7_timestamp = None
  /\ ids = <<>>
  /\ called = <<>>
  /\ cache = <<>>
  /\ allocated = 0
  /\ held = NoFactory
  /\ asked = 0

NextGen ==
  \/ Tick
  \/ Generate

SpecGen == InitGen /\ [][NextGen]_vars

\* The n-th prefix asked for: "aa", "ab", ..., "ba", ...
PrefixOf(n) == <<97 + (n \div 26), 97 + (n % 26)>>

CacheInputs == {MkInput("cache", <<>>, <<>>, None, None)}

InitCache ==
  /\ input \in CacheInputs
  /\ call = MkCall("none", NoTypeID, <<>>)
  /\ ret = [kind |-> "none", exc |-> "", val |-> NoneVal]
  /\ clock = 0
  /\ last_v7_timestamp = None
  /\ ids = <<>>
  /\ called = <<>>
  /\ cache = <<>>
  /\ allocated = 0
  /\ held = NoFactory
  /\ asked = 0

\* cached_typeid_factory(PrefixOf(n)); the caller keeps the first factory it
\* gets
CachedFactory(n) ==
  /\ input.kind = "cache"
  /\ n < MaxPrefixes
  /\ LET r == cached_typeid_factory(PrefixOf(n), cache, allocated)
     IN  /\ call' = MkCall("cached_typeid_factory", NoTypeID, <<>>)
         /\ ret' = Ok(r.out)
         /\ cache' = r.cache
         /\ allocated' = r.allocated
         /\ held' = IF held = NoFactory THEN r.out ELSE held
  /\ asked' = IF n < asked THEN asked ELSE n + 1
  /\ UNCHANGED <<input, clock, last_v7_timestamp, ids, called>>

\* The first prefix asked for, once more
AskFirst == asked > 0 /\ CachedFactory(0)

\* A prefix not asked for before
AskNew == CachedFactory(asked)

NextCache ==
  \/ AskFirst
  \/ AskNew

SpecCache == InitCache /\ [][NextCache]_vars

\* "usr", "", "a_b", "BAD PREFIX", "1", "a" and a newline, "_a"
FactoryPrefixes ==
  { <<117, 115, 114>>, <<>>, <<97, 95, 98>>, <<66, 65, 68, 32, 80, 82, 69, 70, 73, 88>>,
    <<49>>, <<97, 10>>, <<95, 97>> }

\* A prefix, and whether the factory for it is asked of typeid_factory or of
\* cached_typeid_factory
FactoryInputs ==
  {[kind |-> "factory", prefix |-> p, cached |-> c] : p \in FactoryPrefixes, c \in BOOLEAN}

InitFactory ==
  /\ input \in FactoryInputs
  /\ call = MkCall("none", NoTypeID, <<>>)
  /\ ret = [kind |-> "none", exc |-> "", val |-> NoneVal]
  /\ clock \in 0 .. MaxClock
  /\ last_v7_timestamp = None
  /\ ids = <<>>
  /\ called = <<>>
  /\ cache = <<>>
  /\ allocated = 0
  /\ held = NoFactory
  /\ asked = 0

\* typeid_factory(prefix) or cached_typeid_factory(prefix), once or again
MakeFactory ==
  /\ input.kind = "factory"
  /\ allocated < 2
  /\ LET r == IF input.cached THEN cached_typeid_factory(input.prefix, cache, allocated)
              ELSE typeid_factory(input.prefix, cache, allocated)
     IN  /\ call' = MkCall(IF input.cached THEN "cached_typeid_factory" ELSE "typeid_factory",
                           NoTypeID, <<>>)
         /\ ret' = Ok(r.out)
         /\ cache' = r.cache
         /\ allocated' = r.allocated
         /\ held' = r.out
  /\ asked' = IF input.cached THEN 1 ELSE 0
  /\ UNCHANGED <<input, clock, last_v7_timestamp, ids, called>>

\* TypeIDFactory.__call__(): TypeID(self.prefix), of the factory held
CallFactory ==
  /\ input.kind = "factory"
  /\ held # NoFactory
  /\ Len(called) < MaxCalls
  /\ \E r \in {0, 255} :
       LET ts == uuid7_timestamp(clock, last_v7_timestamp)
           fresh == Uuid7(TsBytes(ts), r)
           made == TypeID_init(Some(held.prefix), None, fresh)
       IN  /\ call' = MkCall("TypeIDFactory", NoTypeID, fresh)
           /\ ret' = made
           /\ last_v7_timestamp' = Some(ts)
           /\ ids' = IF made.kind = "ok" THEN Append(ids, made.val) ELSE ids
  /\ called' = Append(called, held.prefix)
  /\ UNCHANGED <<input, clock, factories>>

NextFactory ==
  \/ MakeFactory
  \/ Tick
  \/ CallFactory

SpecFactory == InitFactory /\ [][NextFactory]_vars

-----------------------------------------------------------------------------
(* Properties of the codec *)

\* The alphabet 0123456789abcdefghjkmnpqrstvwxyz, as the set of its characters
Base32Chars == ((48 .. 57) \cup (97 .. 122)) \ {105, 108, 111, 117}

\* 26 characters of the alphabet, the first one of 0..7
WellFormedSuffix(s) ==
  /\ Len(s) = 26
  /\ \A i \in 1 .. Len(s) : s[i] \in Base32Chars
  /\ s[1] \in 48 .. 55

IsByteList16(b) == Len(b) = 16 /\ \A i \in 1 .. 16 : b[i] \in 0 .. 255

\* C1: for every list v of exactly 16 bytes, decode(encode(v)) returns v.
C1_DecodeEncode ==
  (call.op = "encode" /\ IsByteList16(input.bytes))
    => /\ ret.kind = "ok"
       /\ decode(ret.val).kind = "ok"
       /\ decode(ret.val).val = input.bytes

\* encode has run on a 16-byte value with mixed bits and decoded back to it
C1_Witness ==
  /\ call.op = "encode"
  /\ IsByteList16(input.bytes)
  /\ input.bytes[8] = 170
  /\ input.bytes[1] = 255
  /\ ret.kind = "ok"
  /\ decode(ret.val).val = input.bytes

\* C2: for every 26-character string s over the alphabet whose first character
\* is one of 0..7, encode(decode(s)) returns s.
C2_EncodeDecode ==
  (call.op = "decode" /\ WellFormedSuffix(input.str))
    => /\ ret.kind = "ok"
       /\ encode(ret.val).kind = "ok"
       /\ encode(ret.val).val = input.str

\* decode has run on a well-formed string with a z in it and encoded back to it
C2_Witness ==
  /\ call.op = "decode"
  /\ WellFormedSuffix(input.str)
  /\ input.str[5] = 122
  /\ input.str[1] = 55
  /\ ret.kind = "ok"
  /\ encode(ret.val).val = input.str

\* C3: decode raises for every string that is not exactly 26 characters long
\* or that has at least one character outside the alphabet.
C3_DecodeRejects ==
  (call.op = "decode"
     /\ (Len(input.str) # 26 \/ \E i \in 1 .. Len(input.str) : input.str[i] \notin Base32Chars))
    => ret.kind = "raise"

-----------------------------------------------------------------------------
(* Properties of the validators *)

\* C4: validate_suffix accepts s exactly when s has 26 characters, all in the
\* alphabet, the first one of 0..7; it rejects with SuffixValidationException;
\* and every accepted string decodes to 16 values in 0..255.
C4_ValidateSuffix ==
  call.op = "validate_suffix"
    => /\ (ret.kind = "ok") <=> WellFormedSuffix(input.str)
       /\ ret.kind = "raise" => ret.exc = "SuffixValidationException"
       /\ ret.kind = "ok" =>
            /\ decode(input.str).kind = "ok"
            /\ IsByteList16(decode(input.str).val)

\* validate_suffix has accepted a string that begins with 7
C4_Witness ==
  /\ call.op = "validate_suffix"
  /\ ret.kind = "ok"
  /\ input.str[1] = 55
  /\ input.str[2] = 122

\* At most 63 characters, all of a-z and "_", the first and the last a letter
WellFormedPrefix(s) ==
  /\ s # <<>>
  /\ Len(s) <= 63
  /\ \A i \in 1 .. Len(s) : s[i] \in (97 .. 122) \cup {95}
  /\ s[1] \in 97 .. 122
  /\ s[Len(s)] \in 97 .. 122

\* C5: validate_prefix accepts the empty string, accepts a non-empty string
\* only if it is well formed, and rejects every other string with
\* PrefixValidationException.
C5_ValidatePrefix ==
  call.op = "validate_prefix"
    => /\ input.str = <<>> => ret.kind = "ok"
       /\ (ret.kind = "ok" /\ input.str # <<>>) => WellFormedPrefix(input.str)
       /\ (input.str # <<>> /\ ~WellFormedPrefix(input.str))
            => (ret.kind = "raise" /\ ret.exc = "PrefixValidationException")

AdjacentUnderscores(s) == \E i \in 1 .. Len(s) - 1 : s[i] = 95 /\ s[i + 1] = 95

\* C6, as stated: a prefix with two or more adjacent underscores is rejected.
C6_SingleUnderscores ==
  (call.op = "validate_prefix" /\ AdjacentUnderscores(input.str))
    => ret.kind = "raise"

\* C6, amended: a non-empty prefix accepted by validate_prefix, or carried by
\* a constructed TypeID, never begins or ends with an underscore; underscores
\* in between may be adjacent, and a well-formed prefix with adjacent
\* underscores is accepted.
C6_InnerUnderscores ==
  /\ (call.op = "validate_prefix" /\ ret.kind = "ok" /\ input.str # <<>>)
       => (input.str[1] # 95 /\ input.str[Len(input.str)] # 95)
  /\ (call.op = "validate_prefix" /\ WellFormedPrefix(input.str)
        /\ AdjacentUnderscores(input.str))
       => ret.kind = "ok"
  /\ (call.op \in Constructors /\ ret.kind = "ok" /\ TypeID_prefix(ret.val) # <<>>)
       => /\ TypeID_prefix(ret.val)[1] # 95
          /\ TypeID_prefix(ret.val)[Len(TypeID_prefix(ret.val))] # 95

\* validate_prefix has accepted a prefix with two adjacent underscores
C6_Witness ==
  /\ call.op = "validate_prefix"
  /\ ret.kind = "ok"
  /\ AdjacentUnderscores(input.str)

-----------------------------------------------------------------------------
(* Properties of parsing and construction *)

\* The split of s on its last underscore, as <<has underscore, before, after>>
HasUnderscore(s) == \E i \in 1 .. Len(s) : s[i] = 95

IsLastUnderscore(s, i) ==
  /\ i \in 1 .. Len(s)
  /\ s[i] = 95
  /\ \A j \in (i + 1) .. Len(s) : s[j] # 95

\* ret is the split of s on its last underscore, the prefix absent if s has none
IsSplitOf(r, s) ==
  /\ r.kind = "ok"
  /\ IF HasUnderscore(s)
     THEN \E i \in 1 .. Len(s) :
            /\ IsLastUnderscore(s, i)
            /\ r.val[1].some
            /\ r.val[1].v = SubSeq(s, 1, i - 1)
            /\ r.val[2] = SubSeq(s, i + 1, Len(s))
     ELSE ~r.val[1].some /\ r.val[2] = s

\* A side of the split of s that satisfies Empty(_)
SomeSide(s, Empty(_)) ==
  IF HasUnderscore(s)
  THEN \E i \in 1 .. Len(s) :
         /\ IsLastUnderscore(s, i)
         /\ (Empty(SubSeq(s, 1, i - 1)) \/ Empty(SubSeq(s, i + 1, Len(s))))
  ELSE Empty(s)

IsEmpty(s) == s = <<>>

IsBlank(s) == \A i \in 1 .. Len(s) : s[i] \in SpaceChars

IsMalformed(r) == r.kind = "raise" /\ r.exc = "InvalidTypeIDStringException"

\* C7, as stated: the input is split on its last underscore; the parse fails
\* with InvalidTypeIDStringException if a side is empty, and otherwise the two
\* sides are the prefix (absent without an underscore) and the suffix.
C7_SplitEmptySides ==
  call.op = "get_prefix_and_suffix"
    => IF SomeSide(input.str, IsEmpty) THEN IsMalformed(ret)
       ELSE IsSplitOf(ret, input.str)

\* C7, amended: the same, the parse failing with InvalidTypeIDStringException
\* if a side is empty or consists only of whitespace; from_string fails the
\* same way before any validation, and an identifier it returns has the two
\* sides as its prefix and suffix.
C7_SplitBlankSides ==
  /\ call.op = "get_prefix_and_suffix"
       => IF SomeSide(input.str, IsBlank) THEN IsMalformed(ret)
          ELSE IsSplitOf(ret, input.str)
  /\ call.op = "from_string"
       => /\ SomeSide(input.str, IsBlank) <=> IsMalformed(ret)
          /\ ret.kind = "ok" => IsSplitOf(Ok(<<ret.val.prefix, ret.val.suffix>>), input.str)

\* from_string has parsed an identifier whose prefix itself has an underscore
C7_Witness ==
  /\ call.op = "from_string"
  /\ ret.kind = "ok"
  /\ ret.val.prefix.some
  /\ HasUnderscore(ret.val.prefix.v)
  /\ ~HasUnderscore(ret.val.suffix)

TypeIDExceptions ==
  {"InvalidTypeIDStringException", "PrefixValidationException", "SuffixValidationException"}

\* C8: from_string either returns a TypeID whose prefix passes validate_prefix
\* and whose suffix passes validate_suffix, or raises a TypeIDException
\* subclass; nothing else.
C8_FromStringTyped ==
  call.op = "from_string"
    => \/ /\ ret.kind = "ok"
          /\ validate_prefix(TypeID_prefix(ret.val)).kind = "ok"
          /\ validate_suffix(TypeID_suffix(ret.val)).kind = "ok"
       \/ /\ ret.kind = "raise"
          /\ ret.exc \in TypeIDExceptions

\* from_string has raised each kind of error on some input: here a prefix
\* error, on a string with several underscores
C8_Witness ==
  /\ call.op = "from_string"
  /\ ret.kind = "raise"
  /\ ret.exc = "PrefixValidationException"
  /\ \E i, j \in 1 .. Len(input.str) : i # j /\ input.str[i] = 95 /\ input.str[j] = 95

\* C9: TypeID(prefix, suffix) generates a value only when suffix is None, and
\* fails with SuffixValidationException for every supplied suffix that
\* validate_suffix rejects, the empty string included.
C9_SuppliedSuffixValidated ==
  call.op = "TypeID"
    => /\ call.gen # <<>> => ~input.suffix.some
       /\ (input.suffix.some /\ validate_suffix(input.suffix.v).kind = "raise")
            => (ret.kind = "raise" /\ ret.exc = "SuffixValidationException")

\* C10: for every constructed TypeID t, from_string(str(t)) succeeds with the
\* prefix and the suffix of t.
C10_ReparseSame ==
  call.op = "reparse"
    => /\ ret.kind = "ok"
       /\ TypeID_prefix(ret.val) = TypeID_prefix(call.self)
       /\ TypeID_suffix(ret.val) = TypeID_suffix(call.self)

-----------------------------------------------------------------------------
(* Equality, hashing and ordering of TypeIDs *)

\* The prefix an identifier was built with, an absent one read as empty
PrefixText(t) == IF t.prefix.some THEN t.prefix.v ELSE <<>>

\* C11: two TypeIDs are equal if and only if their prefixes are equal (an
\* absent prefix and an empty one being the same prefix) and their suffixes
\* are equal; with one suffix and two different prefixes they are unequal;
\* and two equal TypeIDs have equal hashes
C11_EqualityAndHash ==
  (call.op = "eq" /\ IsTypeID(input.other)) =>
    LET a == input.self
        b == input.other
    IN  /\ ret.val <=> (PrefixText(a) = PrefixText(b) /\ a.suffix = b.suffix)
        /\ (a.suffix = b.suffix /\ PrefixText(a) # PrefixText(b)) => ~ret.val
        /\ ret.val => TypeID_hash(a) = TypeID_hash(b)

\* Two identifiers were compared that have one suffix, one built without a
\* prefix and one with the empty prefix, and they are equal
C11_Witness ==
  /\ call.op = "eq"
  /\ IsTypeID(input.other)
  /\ input.self.prefix = None
  /\ input.other.prefix = Some(<<>>)
  /\ ret.val

\* The canonical string of an identifier: prefix, "_" and suffix, or the
\* suffix alone when the prefix is absent or empty
CanonicalString(t) ==
  IF PrefixText(t) = <<>> THEN t.suffix ELSE PrefixText(t) \o <<95>> \o t.suffix

\* s comes after t in lexicographic order: at the first position where they
\* differ s has the greater element, or t ends there
LexGreater(s, t) ==
  \E i \in 1 .. Len(s) :
    /\ \A j \in 1 .. i - 1 : j <= Len(t) /\ s[j] = t[j]
    /\ i > Len(t) \/ (i <= Len(t) /\ s[i] > t[i])

\* The 128-bit value an identifier's suffix decodes to, as 16 bytes
DecodedValue(t) == decode(t.suffix).val

\* C12: >, >= and the reflected <, <= order TypeIDs by the lexicographic
\* order of their canonical strings; for two TypeIDs with one prefix that is
\* the big-endian numeric order of their decoded 128-bit values, so a > b
\* holds exactly when the value of a is greater than the value of b
C12_OrderedByStringAndValue ==
  (call.op \in {"gt", "ge", "lt", "le"} /\ IsTypeID(input.other)) =>
    LET a == input.self
        b == input.other
        sa == CanonicalString(a)
        sb == CanonicalString(b)
        greater == LexGreater(sa, sb)
        less == LexGreater(sb, sa)
    IN  /\ ret.kind = "ok"
        /\ call.op = "gt" => (ret.val <=> greater)
        /\ call.op = "ge" => (ret.val <=> (greater \/ sa = sb))
        /\ call.op = "lt" => (ret.val <=> less)
        /\ call.op = "le" => (ret.val <=> (less \/ sa = sb))
        /\ (PrefixText(a) = PrefixText(b)) =>
             /\ call.op = "gt" => (ret.val <=> LexGreater(DecodedValue(a), DecodedValue(b)))
             /\ call.op = "ge" => (ret.val <=> ~LexGreater(DecodedValue(b), DecodedValue(a)))
             /\ call.op = "lt" => (ret.val <=> LexGreater(DecodedValue(b), DecodedValue(a)))
             /\ call.op = "le" => (ret.val <=> ~LexGreater(DecodedValue(a), DecodedValue(b)))

\* a > b held for two identifiers with the prefix "plov" whose suffixes
\* differ in the last symbol only, "a" against "9"
C12_Witness ==
  /\ call.op = "gt"
  /\ IsTypeID(input.other)
  /\ input.self.prefix = Some(<<112, 108, 111, 118>>)
  /\ input.other.prefix = input.self.prefix
  /\ input.self.suffix = SetAt(Repeat(48, 26), 26, 97)
  /\ input.other.suffix = SetAt(Repeat(48, 26), 26, 57)
  /\ ret.val

-----------------------------------------------------------------------------
(* The decoded value *)

\* C13: the uuid of an identifier is what was encoded: TypeID.from_uuid(u, p)
\* has the uuid u, for a UUID u of any version, and an identifier with the
\* valid suffix s has the uuid whose 16 bytes are base32.decode(s)
C13_UuidReflectsEncoded ==
  call.op = "uuid" =>
    /\ ret.kind = "ok"
    /\ ret.val = decode(call.self.suffix).val
    /\ (input.kind = "uuid" /\ call.gen = <<>>) => ret.val = input.bytes

-----------------------------------------------------------------------------
(* Generation order *)

\* The creation timestamp derived from an identifier
DerivedCreatedAt(t) == uuid7_created_at(TypeID_uuid(t).val)

-----------------------------------------------------------------------------
(* Properties of explain *)

\* The 16 bytes are those of a version-7 UUID: version nibble 7, variant 10
IsVersion7(b) == b[7] \div 16 = 7 /\ b[9] \div 64 = 2

\* explain has returned an Explanation
Explained == call.op = "explain" /\ ret.kind = "ok"

\* C15: a creation timestamp is derived only for version-7 values: explaining
\* a valid identifier whose decoded 128-bit value is not a version-7 UUID
\* gives no created_at, and explaining one with the suffix
\* 00000000000000000000000000 gives valid = true, the uuid
\* 00000000-0000-0000-0000-000000000000, no created_at and sortable = false
C15_CreatedAtOnlyForVersion7 ==
  (Explained /\ ret.val.valid) =>
    LET parsed == ret.val.parsed
    IN  /\ ~IsVersion7(decode(parsed.suffix.v).val) => ~parsed.created_at.some
        /\ parsed.suffix.v = Repeat(48, 26) =>
             /\ parsed.uuid = Some(<<48, 48, 48, 48, 48, 48, 48, 48, 45, 48, 48, 48, 48, 45, 48, 48, 48, 48, 45, 48, 48, 48, 48, 45, 48, 48, 48, 48, 48, 48, 48, 48, 48, 48, 48, 48>>)
             /\ ~parsed.created_at.some
             /\ parsed.sortable = Some(FALSE)

\* The string s does not parse: TypeID.from_string raises on it
DoesNotParse(s) == from_string(s, <<>>).kind = "raise"

StartsWith(s, p) == Len(p) <= Len(s) /\ SubSeq(s, 1, Len(p)) = p

\* C17: during one explain call the schema lookup is called at most once,
\* and only if parsing succeeded, enable_schema is true, a lookup was given
\* and the parsed prefix is not empty, and then with exactly the parsed
\* prefix; never for an invalid identifier, for a valid one without a prefix,
\* or when enable_schema is false
C17_LookupCalledOnce ==
  Explained =>
    LET parsed == ret.val.parsed
    IN  /\ Len(called) <= 1
        /\ called # <<>> =>
             /\ parsed.valid
             /\ ~DoesNotParse(input.str)
             /\ input.enable_schema
             /\ input.schema_lookup # None
             /\ parsed.prefix.some /\ parsed.prefix.v # <<>>
             /\ called = <<parsed.prefix.v>>
        /\ ~ret.val.valid => called = <<>>
        /\ (ret.val.valid /\ parsed.prefix = Some(<<>>)) => called = <<>>
        /\ ~input.enable_schema => called = <<>>

\* A valid identifier with the prefix "usr" was explained with a lookup and
\* enable_schema, and the lookup was called once, with "usr"
C17_Witness ==
  /\ Explained
  /\ ret.val.valid
  /\ input.enable_schema
  /\ input.schema_lookup # None
  /\ called = << <<117, 115, 114>> >>

\* The lookup given to the explain call raises, and the call reached it
LookupRaised ==
  /\ Explained
  /\ ret.val.valid
  /\ input.schema_lookup # None
  /\ input.schema_lookup.v.raises
  /\ called # <<>>

\* C18: if the schema lookup raises while a valid identifier is explained,
\* explain returns with valid = true, no schema, no links, exactly one
\* warning, which starts with "Schema lookup failed", and the parsed facts
\* and the provenance it gives with no lookup at all
C18_LookupFailureContained ==
  LookupRaised =>
    LET exp   == ret.val
        alone == explain(input.str, None, input.enable_schema, input.enable_links,
                         call.gen).out.val
    IN  /\ exp.valid
        /\ exp.schema = None
        /\ exp.links = <<>>
        /\ Len(exp.warnings) = 1
        /\ StartsWith(exp.warnings[1], <<83, 99, 104, 101, 109, 97, 32, 108, 111, 111, 107, 117, 112, 32, 102, 97, 105, 108, 101, 100>>)
        /\ exp.parsed = alone.parsed
        /\ exp.provenance = alone.provenance
        /\ \A i \in 1 .. Len(exp.provenance) : exp.provenance[i][2] = "derived_from_id"
        /\ exp.errors = <<>>

\* A lookup raised while "usr_00041061050r3gg28a1c60t3gf" was explained with
\* links enabled, and the result carries the warning and the five derived
\* provenance entries
C18_Witness ==
  /\ LookupRaised
  /\ input.str = <<117, 115, 114, 95, 48, 48, 48, 52, 49, 48, 54, 49, 48, 53, 48, 114, 51, 103, 103, 50, 56, 97, 49, 99, 54, 48, 116, 51, 103, 102>>
  /\ input.enable_links
  /\ Len(ret.val.warnings) = 1
  /\ Len(ret.val.provenance) = 5

-----------------------------------------------------------------------------
(* Properties of link rendering *)

\* explain has rendered the link templates of the schema it found
Rendered == Explained /\ ret.val.schema # None /\ input.enable_links

\* The template is one placeholder: "{", a name without braces, "}"
IsPlaceholder(t) ==
  /\ Len(t) >= 3
  /\ t[1] = 123 /\ t[Len(t)] = 125
  /\ \A i \in 2 .. Len(t) - 1 : t[i] \notin {123, 125}

PlaceholderName(t) == SubSeq(t, 2, Len(t) - 1)

\* What the claim has a placeholder stand for in the explanation exp: the
\* value of a known name, the placeholder itself for any other name
Substituted(t, exp) ==
  LET name == PlaceholderName(t)
  IN  IF name = <<105, 100>> THEN exp.id
      ELSE IF name = <<112, 114, 101, 102, 105, 120>> THEN exp.parsed.prefix.v
      ELSE IF name = <<115, 117, 102, 102, 105, 120>> THEN exp.parsed.suffix.v
      ELSE IF name = <<117, 117, 105, 100>> THEN exp.parsed.uuid.v
      ELSE IF name = <<99, 114, 101, 97, 116, 101, 100, 95, 97, 116>>
           THEN IF exp.parsed.created_at.some
                THEN isoformat(exp.parsed.created_at.v) ELSE <<>>
      ELSE t

\* C19: a rendered link has {id}, {prefix}, {suffix}, {uuid} and {created_at}
\* replaced by their values ({created_at} by the ISO-8601 timestamp, or by
\* the empty string when there is none) and every other placeholder {name},
\* whatever its name, left as it is, braces included; such a template gives a
\* link and no warning
C19_PlaceholdersRendered ==
  Rendered =>
    LET exp       == ret.val
        templates == exp.schema.v.links
    IN  \A i \in 1 .. Len(templates) :
          (templates[i][2].isstr /\ IsPlaceholder(templates[i][2].v)) =>
            /\ \E j \in 1 .. Len(exp.links) :
                 exp.links[j] = <<templates[i][1], Substituted(templates[i][2].v, exp)>>
            /\ Len(templates) = 1 => exp.warnings = <<>>

\* The template at index i of templates does not give a link in exp: it is
\* not a str, or rendering it raises
FailsToRender(templates, i, exp) ==
  \/ ~templates[i][2].isstr
  \/ format_map(templates[i][2].v, exp).kind = "raise"

\* C20: each named template is rendered on its own: one that is not a str, or
\* whose rendering raises, adds one warning and is left out of links, and
\* every other template of the schema is rendered; with enable_links false or
\* no schema found nothing is rendered: no links and no link warnings
C20_TemplatesIndependent ==
  Explained =>
    LET exp       == ret.val
        templates == IF exp.schema = None THEN <<>> ELSE exp.schema.v.links
        failing   == {i \in 1 .. Len(templates) : FailsToRender(templates, i, exp)}
    IN  IF Rendered
        THEN /\ \A i \in 1 .. Len(templates) :
                  IF i \in failing
                  THEN /\ templates[i][1] \notin DictKeys(exp.links)
                       /\ \E k \in 1 .. Len(exp.warnings) :
                            \/ StartsWith(exp.warnings[k],
                                 <<76, 105, 110, 107, 32, 116, 101, 109, 112, 108, 97, 116, 101, 32, 39>> \o templates[i][1] \o <<39>>)
                            \/ StartsWith(exp.warnings[k],
                                 <<70, 97, 105, 108, 101, 100, 32, 116, 111, 32, 114, 101, 110, 100, 101, 114, 32, 108, 105, 110, 107, 32, 39>> \o templates[i][1] \o <<39>>)
                  ELSE \E j \in 1 .. Len(exp.links) :
                         exp.links[j] = <<templates[i][1], format_map(templates[i][2].v, exp).val>>
             /\ Len(exp.warnings) = Cardinality(failing)
             /\ Len(exp.links) = Len(templates) - Cardinality(failing)
        ELSE /\ exp.links = <<>>
             /\ \A k \in 1 .. Len(exp.warnings) :
                  StartsWith(exp.warnings[k], <<83, 99, 104, 101, 109, 97, 32, 108, 111, 111, 107, 117, 112, 32, 102, 97, 105, 108, 101, 100>>)

\* A schema with four templates was rendered, the first and the third
\* failing: the result has the two other links and two warnings
C20_Witness ==
  /\ Rendered
  /\ Len(ret.val.schema.v.links) = 4
  /\ FailsToRender(ret.val.schema.v.links, 1, ret.val)
  /\ FailsToRender(ret.val.schema.v.links, 3, ret.val)
  /\ DictKeys(ret.val.links) = {<<98>>, <<100>>}
  /\ Len(ret.val.warnings) = 2

\* The provenance entries the fields of the attached schema call for
SchemaEntries(schema) ==
  IF schema = None THEN {}
  ELSE {<<k[1], "schema">> : k \in
          {k \in { <<<<110, 97, 109, 101>>, schema.v.name>>,
                   <<<<100, 101, 115, 99, 114, 105, 112, 116, 105, 111, 110>>, schema.v.description>>,
                   <<<<111, 119, 110, 101, 114, 95, 116, 101, 97, 109>>, schema.v.owner_team>>,
                   <<<<112, 105, 105>>, schema.v.pii>>,
                   <<<<114, 101, 116, 101, 110, 116, 105, 111, 110>>, schema.v.retention>> } :
             k[2].some}}

\* The provenance entries the links of the explanation call for
LinkEntries(links) == {<<(<<108, 105, 110, 107, 115, 46>> \o k), "schema">> : k \in DictKeys(links)}

\* The provenance entries the fields of the parsed record call for
DerivedEntries(parsed) ==
  {<<k[1], "derived_from_id">> : k \in
     {k \in { <<<<112, 114, 101, 102, 105, 120>>, parsed.prefix>>,
              <<<<115, 117, 102, 102, 105, 120>>, parsed.suffix>>,
              <<<<117, 117, 105, 100>>, parsed.uuid>>,
              <<<<99, 114, 101, 97, 116, 101, 100, 95, 97, 116>>, parsed.created_at>>,
              <<<<115, 111, 114, 116, 97, 98, 108, 101>>, parsed.sortable>> } :
        k[2].some}}

\* C21: the provenance of the Explanation of a valid identifier holds exactly
\* <field> -> schema for each of name, description, owner_team, pii and
\* retention that is not None in the attached schema (pii = false included),
\* links.<name> -> schema for each link in links, and <field> ->
\* derived_from_id for each of prefix, suffix, uuid, created_at and sortable
\* that parsed has; no key occurs twice, and no label is external or unknown
C21_ProvenanceExact ==
  (Explained /\ ret.val.valid) =>
    LET prov == ret.val.provenance
    IN  /\ {prov[i] : i \in 1 .. Len(prov)}
             = SchemaEntries(ret.val.schema) \cup LinkEntries(ret.val.links)
                 \cup DerivedEntries(ret.val.parsed)
        /\ Cardinality(DictKeys(prov)) = Len(prov)
        /\ \A i \in 1 .. Len(prov) : prov[i][2] \in {"schema", "derived_from_id"}

\* A valid identifier explained with a schema whose pii is false and with two
\* links rendered: nine schema and link entries and five derived ones
C21_Witness ==
  /\ Explained /\ ret.val.valid
  /\ ret.val.schema # None
  /\ ret.val.schema.v.pii.some /\ ~ret.val.schema.v.pii.v
  /\ Len(ret.val.links) = 2
  /\ ret.val.parsed.created_at # None
  /\ Len(ret.val.provenance) = 12

-----------------------------------------------------------------------------
(* Properties of the schema registry *)

\* load_registry has returned for a root that is a mapping
LoadedRoot ==
  /\ call.op = "load_registry"
  /\ input.read.kind = "ok"
  /\ input.read.val.t = "dict"

\* The schema_version of the root mapping read, null when it is missing
RootVersion == Get(input.read.val.items, <<115, 99, 104, 101, 109, 97, 95, 118, 101, 114, 115, 105, 111, 110>>)

\* C22: load_registry gives a registry only when the schema_version of the
\* root mapping is the integer 1; a missing schema_version gives the error
\* code missing_schema_version, and any other value, an integer or not, gives
\* an error and no registry
C22_OnlyVersionOne ==
  LoadedRoot =>
    /\ ret.val.registry.some => RootVersion = JInt(1)
    /\ RootVersion = JNull => ret.val.error = "missing_schema_version"
    /\ RootVersion # JInt(1) => ~ret.val.registry.some /\ ret.val.error # ""

\* The types value of the root mapping read, null when it is missing
RootTypes == Get(input.read.val.items, <<116, 121, 112, 101, 115>>)

\* load_registry has returned for a root mapping of schema_version 1 whose
\* types is a mapping
LoadedTypes == LoadedRoot /\ RootVersion = JInt(1) /\ RootTypes.t = "dict"

\* The entry (key, value) of types is well formed: a non-empty str and a map
WellFormed(entry) == entry[1].t = "str" /\ entry[1].s # <<>> /\ entry[2].t = "dict"

\* The links value of a type entry, null when it has none
LinksOf(entry) == Get(entry[2].items, <<108, 105, 110, 107, 115>>)

\* C23: malformed type entries do not fail the load: with schema_version 1
\* and a types mapping load_registry gives a registry and no error; an entry
\* whose key is "" or not a str, or whose value is not a mapping, is not in
\* the registry; every well-formed entry is retrievable by its prefix, with
\* its name; and one whose links value is not a mapping has no links
C23_MalformedEntriesSkipped ==
  LoadedTypes =>
    /\ ret.val.registry.some /\ ret.val.error = ""
    /\ LET types == ret.val.registry.v.types
           items == RootTypes.items
       IN  /\ DictKeys(types)
                = {items[i][1].s : i \in {i \in 1 .. Len(items) : WellFormed(items[i])}}
           /\ Len(types) = Cardinality(DictKeys(types))
           /\ \A i \in 1 .. Len(items) :
                WellFormed(items[i]) =>
                  LET found == SchemaRegistry_get(types, items[i][1].s)
                  IN  /\ found.some
                      /\ found.v.prefix = items[i][1].s
                      /\ found.v.name = StrOrNone(Get(items[i][2].items, <<110, 97, 109, 101>>))
                      /\ LinksOf(items[i]).t # "dict" => found.v.links = <<>>

\* A file with four entries: "usr" with a list for links, "" and 5 with
\* maps, "ord" with a list; only "usr" is loaded, named "User", without links
C23_Witness ==
  /\ LoadedTypes
  /\ Len(RootTypes.items) = 4
  /\ LinksOf(RootTypes.items[1]) = JList(2)
  /\ RootTypes.items[2][2].t = "dict"
  /\ RootTypes.items[3][2].t = "dict"
  /\ RootTypes.items[4][2].t = "list"
  /\ DictKeys(ret.val.registry.v.types) = {<<117, 115, 114>>}
  /\ ret.val.registry.v.types[1][2].name = Some(<<85, 115, 101, 114>>)

-----------------------------------------------------------------------------
(* Properties of schema discovery *)

\* The paths discovery examines, in the order of precedence: the path of
\* TYPEID_SCHEMA when it is set, the candidates of the working directory,
\* the candidates of <user config dir>/typeid
Precedence(environ) ==
  (IF environ.TYPEID_SCHEMA.some /\ environ.TYPEID_SCHEMA.v # <<>>
   THEN <<environ.TYPEID_SCHEMA.v>> ELSE <<>>)
    \o [i \in 1 .. 3 |-> <<"cwd", DEFAULT_CWD_CANDIDATES[i]>>]
    \o [i \in 1 .. 3 |-> user_config_dir(environ) \o <<"typeid", DEFAULT_USER_CANDIDATES[i]>>]

\* The first path of the sequence that is a file, None if none is
FirstExisting(paths, files) ==
  IF \E i \in 1 .. Len(paths) : paths[i] \in files
  THEN Some(paths[CHOOSE i \in 1 .. Len(paths) :
                    paths[i] \in files /\ \A j \in 1 .. i - 1 : paths[j] \notin files])
  ELSE None

\* C24: discover_schema_path returns the first existing file in the order
\* TYPEID_SCHEMA, typeid.schema.json, typeid.schema.yaml, typeid.schema.yml
\* in the working directory, schema.json, schema.yaml, schema.yml in <user
\* config dir>/typeid, and no path only when none of them exists
C24_FirstExistingWins ==
  call.op = "discover_schema_path" =>
    ret.val.path = FirstExisting(Precedence(input.environ), input.files)

-----------------------------------------------------------------------------
(* Properties of the factories *)

\* C25: after any sequence of calls, cached_typeid_factory returns the
\* identical object for every call with the same prefix, however many calls
\* with other prefixes came in between, and a different object for a
\* different prefix: every call for the prefix of the factory held returns
\* the factory held, every other call another object
C25_CacheNeverEvicts ==
  (call.op = "cached_typeid_factory" /\ input.kind = "cache") =>
    /\ ret.val.prefix = held.prefix => ret.val.id = held.id
    /\ ret.val.prefix # held.prefix => ret.val.id # held.id

\* The prefix the factory was asked for is a valid prefix: empty or well
\* formed
ValidFactoryPrefix == input.prefix = <<>> \/ WellFormedPrefix(input.prefix)

\* C26: typeid_factory(p) and cached_typeid_factory(p) give a factory for p
\* without validating p; each call of the factory gives a TypeID with the
\* prefix p and a freshly generated suffix, no two of them equal; and when p
\* is not a valid prefix every call of the factory fails with
\* PrefixValidationException
C26_FactoryGeneratesFresh ==
  input.kind = "factory" =>
    /\ call.op \in {"typeid_factory", "cached_typeid_factory"} =>
         ret.kind = "ok" /\ ret.val.prefix = input.prefix
    /\ (call.op = "TypeIDFactory" /\ ret.kind = "ok") =>
         /\ TypeID_prefix(ret.val) = input.prefix
         /\ TypeID_suffix(ret.val) = encode(call.gen).val
    /\ \A i \in 1 .. Len(ids) : \A j \in 1 .. Len(ids) :
         i # j => ~TypeID_eq(ids[i], ids[j])
    /\ (call.op = "TypeIDFactory" /\ ~ValidFactoryPrefix) =>
         ret.kind = "raise" /\ ret.exc = "PrefixValidationException"

-----------------------------------------------------------------------------
(* Properties of the pretty format's quoting *)

\* A str value went through _emit_kv
EmittedStr == call.op = "_emit_kv" /\ input.value.t = "str"

\* The text after "  k: " in the line
EmittedText == SubSeq(ret.val, Len(input.indent) + Len(input.key) + 3, Len(ret.val))

\* text is s between double quotes, each backslash and double quote of s
\* behind a backslash
RECURSIVE IsEscaped(_, _)
IsEscaped(text, s) ==
  IF s = <<>> THEN text = <<>>
  ELSE IF s[1] \in {92, 34}
       THEN Len(text) >= 2 /\ text[1] = 92 /\ text[2] = s[1] /\ IsEscaped(Tail(Tail(text)), Tail(s))
       ELSE text # <<>> /\ text[1] = s[1] /\ IsEscaped(Tail(text), Tail(s))

IsQuoted(text, s) ==
  /\ Len(text) >= 2
  /\ text[1] = 34
  /\ text[Len(text)] = 34
  /\ IsEscaped(SubSeq(text, 2, Len(text) - 1), s)

HasAny(s, chars) == \E i \in 1 .. Len(s) : s[i] \in chars

EdgeWhitespace(s) == s # <<>> /\ (s[1] \in SpaceChars \/ s[Len(s)] \in SpaceChars)

\* s reads as word whatever the case of its ASCII letters
ReadsAs(s, word) ==
  /\ Len(s) = Len(word)
  /\ \A i \in 1 .. Len(s) : s[i] = word[i] \/ s[i] = word[i] - 32

\* "true", "false", "null"; and "none", which the code takes for a null too
BooleanNullWords ==
  {<<116, 114, 117, 101>>, <<102, 97, 108, 115, 101>>, <<110, 117, 108, 108>>}

-----------------------------------------------------------------------------
(* Properties of the encoder's output *)

\* C28: encode fails for every input whose length is not 16; for every
\* 16-byte input it returns 26 characters of the alphabet, the first one of
\* 0..7, and validate_suffix accepts what it returns.
C28_EncodeOutputIsSuffix ==
  call.op = "encode" =>
    IF Len(input.bytes) # 16 THEN ret.kind = "raise"
    ELSE /\ ret.kind = "ok"
         /\ Len(ret.val) = 26
         /\ \A i \in 1 .. 26 : ret.val[i] \in Base32Chars
         /\ ret.val[1] \in 48 .. 55
         /\ validate_suffix(ret.val).kind = "ok"

\* encode has run on sixteen 0xFF bytes and returned 7 and twenty-five z,
\* which validate_suffix accepts
C28_Witness ==
  /\ call.op = "encode"
  /\ input.bytes = [i \in 1 .. 16 |-> 255]
  /\ ret.kind = "ok"
  /\ ret.val = <<55>> \o [i \in 1 .. 25 |-> 122]
  /\ validate_suffix(ret.val).kind = "ok"

-----------------------------------------------------------------------------
(* Properties of parsing *)

\* from_string has accepted the input string
Accepted == call.op = "from_string" /\ ret.kind = "ok"

\* s is 26 characters of the alphabet, alone or behind a prefix and "_"
HasCanonicalForm(s) ==
  /\ Len(s) >= 26
  /\ \A i \in (Len(s) - 25) .. Len(s) : s[i] \in Base32Chars
  /\ Len(s) > 26 => (Len(s) >= 28 /\ s[Len(s) - 26] = Underscore)

\* The strings from_string accepts, each with the TypeID it parses to
AcceptedParses ==
  {[string |-> s, parsed |-> from_string(s, <<>>).val] :
     s \in {x \in StrInputs : from_string(x, <<>>).kind = "ok"}}

\* C29: parsing performs no normalisation: for every string s from_string
\* accepts, str(from_string(s)) is s itself, no other string parses to a
\* TypeID equal to the one s parses to, and s is [prefix "_"] followed by 26
\* characters of the alphabet.
C29_ParsingKeepsTheString ==
  Accepted =>
    /\ TypeID_str(ret.val) = input.str
    /\ HasCanonicalForm(input.str)
    /\ \A other \in AcceptedParses :
         other.string # input.str => ~TypeID_eq(ret.val, other.parsed)

\* from_string has accepted a string with an underscore inside its prefix,
\* and the TypeID's string is that string
C29_Witness ==
  /\ Accepted
  /\ Len(input.str) > 28
  /\ \E i \in 1 .. (Len(input.str) - 27) : input.str[i] = Underscore
  /\ TypeID_str(ret.val) = input.str

-----------------------------------------------------------------------------
(* Properties of the SQLAlchemy adapter *)

\* The TypeID handed to the adapter carries the adapter's prefix: no prefix
\* for an adapter configured with None, else the prefix configured
CarriesPrefix == input.value.prefix = input.adapter.prefix

\* C30: for an adapter configured with prefix p (None included) and a TypeID
\* t carrying that prefix, process_bind_param(t) passes the assertions and
\* returns t's UUID, and process_result_value of that UUID returns a TypeID
\* equal to t.
C30_AdapterRoundTrip ==
  /\ (call.op = "process_bind_param" /\ CarriesPrefix) =>
       /\ ret.kind = "ok"
       /\ ret.val = TypeID_uuid(input.value).val
  /\ (call.op = "process_result_value" /\ CarriesPrefix) =>
       /\ ret.kind = "ok"
       /\ TypeID_eq(ret.val, input.value)

=============================================================================
